---------------------------- MODULE Spec2Model ----------------------------
(***************************************************************************)
(* FighterNFT: an ERC-721 registry whose tokens carry three encrypted      *)
(* attributes (agility, strength, stamina).  The contract storage, the     *)
(* FHE access-control list it writes to, and every external entry point    *)
(* are modelled; a call that reverts leaves the storage as it was.         *)
(***************************************************************************)
EXTENDS Integers, Sequences, FiniteSets, TLC

(* ------------------------------ bounds --------------------------------- *)

\* Mints are accepted while _nextTokenId <= MaxTokens.
MaxTokens == 2

\* Successful state-changing calls explored from the initial state.
MaxOps == 3

\* Nesting depth of onERC721Received callbacks that are followed.
MaxDepth == 1

\* Largest attribute value of the exhaustive validation checks.
MaxPoint == 12

(* ----------------------------- constants ------------------------------- *)

_TOTAL_ATTRIBUTE_POINTS == 10

ZERO == "address(0)"

\* address(this): the contract, the principal FHE.allowThis grants.
THIS == "FighterNFT"

Accounts == {"alice", "bob", "receiver"}

\* Accounts with code (to.code.length > 0): they get the onERC721Received call.
Contracts == {"receiver"}

Address == Accounts \cup {ZERO}

\* The token ids of the model's mappings; 0 is never minted.
TokenIds == 0 .. MaxTokens

\* Token ids passed to the entry points.
TokenArgs == 1 .. MaxTokens

\* Attribute triples submitted to mintFighter / updateAttributes.
Distributions ==
    { <<4, 3, 3>>, <<2, 5, 3>>, <<0, 10, 0>>, <<5, 3, 3>>, <<11, 0, 0>> }

\* Attribute values of the exhaustive validation checks.
WidePoints == 0 .. MaxPoint

NoError == "ok"

(* ------------------------------- state --------------------------------- *)

VARIABLES
    _nextTokenId,        \* uint256 private _nextTokenId = 1
    _totalMinted,        \* uint256 private _totalMinted
    _owners,             \* mapping(uint256 => address)
    _balances,           \* mapping(address => uint256)
    _tokenApprovals,     \* mapping(uint256 => address)
    _operatorApprovals,  \* mapping(address => mapping(address => bool))
    _fighterAttributes,  \* mapping(uint256 => FighterAttributes)
    _ownedTokens,        \* mapping(address => uint256[])
    _ownedTokensIndex,   \* mapping(uint256 => uint256)
    acl,                 \* FHE ACL: persisted (handle, account) allowances
    callStack,           \* safeTransferFrom calls waiting in onERC721Received
    last,                \* the most recent call and its outcome
    nops,                \* successful state-changing calls so far
    task,                \* the fighter:mint task: position and values read
    connectedAddress,    \* FighterApp: address ?? undefined (ZERO: undefined)
    publicClient,        \* FighterApp: usePublicClient() is defined
    refreshIndex,        \* FighterApp: useState(0)
    fighters,            \* FighterApp: useState<Fighter[]>([])
    listError,           \* FighterApp: useState<string | null>(null)
    isLoadingFighters,   \* FighterApp: useState(false)
    isMinting,           \* FighterApp: useState(false)
    mintError,           \* FighterApp: useState<string | null>(null)
    mintSuccess,         \* FighterApp: useState<string | null>(null)
    loads,               \* the load() closures started, in order
    decrypted,           \* FighterCard: useState<DecryptedAttributes | null>
    isDecrypting,        \* FighterCard: useState(false)
    decryptError,        \* FighterCard: useState<string | null>(null)
    isEditing,           \* FighterCard: useState(false)
    updateValues,        \* FighterCard: useState<AttributeState>
    updateError,         \* FighterCard: useState<string | null>(null)
    isUpdating,          \* FighterCard: useState(false)
    decrypts             \* handleDecrypt calls awaiting userDecrypt

storageVars ==
    << _nextTokenId, _totalMinted, _owners, _balances, _tokenApprovals,
       _operatorApprovals, _fighterAttributes, _ownedTokens,
       _ownedTokensIndex, acl >>

\* The state of FighterApp and of its load effect.
appVars ==
    << connectedAddress, publicClient, refreshIndex, fighters, listError,
       isLoadingFighters, isMinting, mintError, mintSuccess, loads >>

\* The state of the FighterCard of token 1.
cardVars ==
    << decrypted, isDecrypting, decryptError, isEditing, updateValues,
       updateError, isUpdating, decrypts >>

\* The clients of the contract: the Hardhat task and the web application.
clientVars == << task, appVars, cardVars >>

vars == << storageVars, callStack, last, nops, clientVars >>

\* The contract storage (and the ACL) as one value.
storage ==
    [ _nextTokenId       |-> _nextTokenId,
      _totalMinted       |-> _totalMinted,
      _owners            |-> _owners,
      _balances          |-> _balances,
      _tokenApprovals    |-> _tokenApprovals,
      _operatorApprovals |-> _operatorApprovals,
      _fighterAttributes |-> _fighterAttributes,
      _ownedTokens       |-> _ownedTokens,
      _ownedTokensIndex  |-> _ownedTokensIndex,
      acl                |-> acl ]

(* ------------------------------ handles -------------------------------- *)

\* euint32.wrap(0): the value of an attribute slot never written.
NullHandle == << "euint32.wrap(0)", -1 >>

\* FHE.asEuint32(value): trivial encryption.  The handle is a pure function
\* of the plaintext: two calls with the same value give the same handle.
asEuint32(value) == << "trivialEncrypt", value >>

\* The plaintext a decryption of the handle returns (none for NullHandle).
Plaintext(handle) == handle[2]

EmptyAttributes ==
    [ agility |-> NullHandle, strength |-> NullHandle, stamina |-> NullHandle ]

\* The three handles of a FighterAttributes struct.
HandlesOf(attributes) ==
    { attributes.agility, attributes.strength, attributes.stamina }

\* ACL.isAllowed(handle, account), persisted part.
isAllowed(s, handle, account) == << handle, account >> \in s.acl

\* The accounts that can read (decrypt) the handle.
Readers(s, handle) == { x \in Accounts \cup {THIS} : isAllowed(s, handle, x) }

(* ------------------------- call results -------------------------------- *)

\* A call that returns: the storage it leaves and its return value.
Ok(s, ret) == [ ok |-> TRUE, err |-> NoError, st |-> s, ret |-> ret ]

\* A call that reverts with the given error; its writes are discarded.
Revert(err) == [ ok |-> FALSE, err |-> err ]

(* ------------------------ private functions ---------------------------- *)

_exists(s, tokenId) == s._owners[tokenId] # ZERO

_isApprovedOrOwner(s, spender, tokenId, owner) ==
    \/ spender = owner
    \/ s._tokenApprovals[tokenId] = spender
    \/ s._operatorApprovals[owner][spender]

\* _validateDistribution that checks the total before the range.
ValidateSumFirst(agility, strength, stamina) ==
    IF agility + strength + stamina # _TOTAL_ATTRIBUTE_POINTS
    THEN "AttributeTotalMismatch"
    ELSE IF \/ agility > _TOTAL_ATTRIBUTE_POINTS
            \/ strength > _TOTAL_ATTRIBUTE_POINTS
            \/ stamina > _TOTAL_ATTRIBUTE_POINTS
    THEN "AttributeOutOfRange"
    ELSE NoError

\* _validateDistribution with the check of the total left out.
ValidateRangeOnly(agility, strength, stamina) ==
    IF \/ agility > _TOTAL_ATTRIBUTE_POINTS
       \/ strength > _TOTAL_ATTRIBUTE_POINTS
       \/ stamina > _TOTAL_ATTRIBUTE_POINTS
    THEN "AttributeOutOfRange"
    ELSE NoError

\* The error _validateDistribution reverts with, or NoError.  The sum is
\* taken only of operands that passed the range check (at most 30).
_validateDistribution(agility, strength, stamina) ==
    IF \/ agility > _TOTAL_ATTRIBUTE_POINTS
       \/ strength > _TOTAL_ATTRIBUTE_POINTS
       \/ stamina > _TOTAL_ATTRIBUTE_POINTS
    THEN "AttributeOutOfRange"
    ELSE IF agility + strength + stamina # _TOTAL_ATTRIBUTE_POINTS
    THEN "AttributeTotalMismatch"
    ELSE NoError

_createAttributes(agility, strength, stamina) ==
    IF _validateDistribution(agility, strength, stamina) # NoError
    THEN Revert(_validateDistribution(agility, strength, stamina))
    ELSE [ ok |-> TRUE,
           err |-> NoError,
           attributes |-> [ agility  |-> asEuint32(agility),
                            strength |-> asEuint32(strength),
                            stamina  |-> asEuint32(stamina) ] ]

\* FHE.allowThis on the three handles.
_allowContract(s, attributes) ==
    [ s EXCEPT !.acl = @ \cup { << h, THIS >> : h \in HandlesOf(attributes) } ]

\* FHE.allow(handle, viewer) on the three handles.
_allowViewer(s, attributes, viewer) ==
    [ s EXCEPT !.acl = @ \cup { << h, viewer >> : h \in HandlesOf(attributes) } ]

\* RemoveFromOwnedTokens with the pop left out.
RemoveWithoutPop(s, from, tokenId) ==
    LET list       == s._ownedTokens[from]
        lastIndex  == Len(list) - 1
        tokenIndex == s._ownedTokensIndex[tokenId]
        lastTokenId == list[lastIndex + 1]
        swapped ==
            IF tokenIndex # lastIndex
            THEN [ s EXCEPT !._ownedTokens[from][tokenIndex + 1] = lastTokenId,
                            !._ownedTokensIndex[lastTokenId] = tokenIndex ]
            ELSE s
    IN  IF Len(list) = 0
        THEN Revert("Panic")
        ELSE IF tokenIndex # lastIndex /\ tokenIndex >= Len(list)
        THEN Revert("Panic")
        ELSE Ok([ swapped EXCEPT !._ownedTokensIndex[tokenId] = 0 ], 0)

\* RemoveFromOwnedTokens with the moved token's index left stale.
RemoveWithoutIndexFix(s, from, tokenId) ==
    LET list       == s._ownedTokens[from]
        lastIndex  == Len(list) - 1
        tokenIndex == s._ownedTokensIndex[tokenId]
        lastTokenId == list[lastIndex + 1]
        swapped ==
            IF tokenIndex # lastIndex
            THEN [ s EXCEPT !._ownedTokens[from][tokenIndex + 1] = lastTokenId ]
            ELSE s
    IN  IF Len(list) = 0
        THEN Revert("Panic")
        ELSE IF tokenIndex # lastIndex /\ tokenIndex >= Len(list)
        THEN Revert("Panic")
        ELSE Ok([ swapped EXCEPT
                    !._ownedTokens[from] = SubSeq(@, 1, Len(@) - 1),
                    !._ownedTokensIndex[tokenId] = 0 ], 0)

\* The swap-and-pop removal of tokenId from _ownedTokens[from].  Array
\* indices are 0-based in the code and 1-based in the sequences here.
RemoveFromOwnedTokens(s, from, tokenId) ==
    LET list       == s._ownedTokens[from]
        lastIndex  == Len(list) - 1
        tokenIndex == s._ownedTokensIndex[tokenId]
        lastTokenId == list[lastIndex + 1]
        swapped ==
            IF tokenIndex # lastIndex
            THEN [ s EXCEPT !._ownedTokens[from][tokenIndex + 1] = lastTokenId,
                            !._ownedTokensIndex[lastTokenId] = tokenIndex ]
            ELSE s
    IN  IF Len(list) = 0
        THEN Revert("Panic")            \* length - 1 underflows
        ELSE IF tokenIndex # lastIndex /\ tokenIndex >= Len(list)
        THEN Revert("Panic")            \* array index out of bounds
        ELSE Ok([ swapped EXCEPT
                    !._ownedTokens[from] = SubSeq(@, 1, Len(@) - 1),
                    !._ownedTokensIndex[tokenId] = 0 ], 0)

\* The push of tokenId onto _ownedTokens[to].
AddToOwnedTokens(s, to, tokenId) ==
    [ s EXCEPT !._ownedTokensIndex[tokenId] = Len(s._ownedTokens[to]),
               !._ownedTokens[to] = Append(@, tokenId) ]

\* _beforeTokenTransfer that never removes the token from the sender's list.
BeforeTransferWithoutRemoval(s, from, to, tokenId) ==
    IF from = to
    THEN Ok(s, 0)
    ELSE IF to # ZERO
    THEN Ok(AddToOwnedTokens(s, to, tokenId), 0)
    ELSE Ok(s, 0)

\* _beforeTokenTransfer without the from == to short-circuit.
BeforeTransferWithoutShortCircuit(s, from, to, tokenId) ==
    LET removed == IF from # ZERO
                   THEN RemoveFromOwnedTokens(s, from, tokenId)
                   ELSE Ok(s, 0)
    IN  IF ~removed.ok
        THEN removed
        ELSE IF to # ZERO
        THEN Ok(AddToOwnedTokens(removed.st, to, tokenId), 0)
        ELSE removed

_beforeTokenTransfer(s, from, to, tokenId) ==
    IF from = to
    THEN Ok(s, 0)
    ELSE LET removed == IF from # ZERO
                        THEN RemoveFromOwnedTokens(s, from, tokenId)
                        ELSE Ok(s, 0)
         IN  IF ~removed.ok
             THEN removed
             ELSE IF to # ZERO
             THEN Ok(AddToOwnedTokens(removed.st, to, tokenId), 0)
             ELSE removed

\* _afterTokenTransfer that also takes the previous owner's allowance away.
AfterTransferRevokesSender(s, from, to, tokenId) ==
    IF from # ZERO /\ to # ZERO
    THEN _allowViewer(
             [ s EXCEPT !.acl = @ \ { << h, from >> :
                                        h \in HandlesOf(s._fighterAttributes[tokenId]) } ],
             s._fighterAttributes[tokenId], to)
    ELSE s

\* _afterTokenTransfer that grants the previous owner instead of the new one.
AfterTransferGrantsSender(s, from, to, tokenId) ==
    IF from # ZERO /\ to # ZERO
    THEN _allowViewer(s, s._fighterAttributes[tokenId], from)
    ELSE s

_afterTokenTransfer(s, from, to, tokenId) ==
    IF from # ZERO /\ to # ZERO
    THEN _allowViewer(s, s._fighterAttributes[tokenId], to)
    ELSE s

_mint(s, to, tokenId) ==
    IF to = ZERO
    THEN Revert("InvalidAddress")
    ELSE IF _exists(s, tokenId)
    THEN Revert("TokenAlreadyMinted")
    ELSE LET before == _beforeTokenTransfer(s, ZERO, to, tokenId)
         IN  IF ~before.ok
             THEN before
             ELSE Ok(_afterTokenTransfer(
                        [ before.st EXCEPT !._balances[to] = @ + 1,
                                           !._owners[tokenId] = to ],
                        ZERO, to, tokenId), 0)

\* The writes of _transfer without _owners[tokenId] = to.
TransferEffectsKeepOwner(s, from, to, tokenId) ==
    LET before == _beforeTokenTransfer(s, from, to, tokenId)
    IN  IF ~before.ok
        THEN before
        ELSE IF before.st._balances[from] = 0
        THEN Revert("Panic")
        ELSE LET cleared == [ before.st EXCEPT !._tokenApprovals[tokenId] = ZERO ]
                 debited == [ cleared EXCEPT !._balances[from] = @ - 1 ]
                 moved   == [ debited EXCEPT !._balances[to] = @ + 1 ]
             IN  Ok(_afterTokenTransfer(moved, from, to, tokenId), 0)

\* The writes of _transfer after its checks.
TransferEffects(s, from, to, tokenId) ==
    LET before == _beforeTokenTransfer(s, from, to, tokenId)
    IN  IF ~before.ok
        THEN before
        ELSE IF before.st._balances[from] = 0
        THEN Revert("Panic")            \* _balances[from] -= 1 underflows
        ELSE LET cleared == [ before.st EXCEPT !._tokenApprovals[tokenId] = ZERO ]
                 debited == [ cleared EXCEPT !._balances[from] = @ - 1 ]
                 moved   == [ debited EXCEPT !._balances[to] = @ + 1,
                                             !._owners[tokenId] = to ]
             IN  Ok(_afterTokenTransfer(moved, from, to, tokenId), 0)

\* _transfer without the nonZeroAddress(to) modifier and the to check.
TransferAllowsZero(s, sender, from, to, tokenId) ==
    IF ~_exists(s, tokenId)
    THEN Revert("FighterDoesNotExist")
    ELSE IF s._owners[tokenId] # from
    THEN Revert("NotAuthorized")
    ELSE IF ~_isApprovedOrOwner(s, sender, tokenId, s._owners[tokenId])
    THEN Revert("NotAuthorized")
    ELSE TransferEffects(s, from, to, tokenId)

\* _transfer that lets anyone move a token its owner holds.
TransferWithoutAuthorization(s, sender, from, to, tokenId) ==
    IF to = ZERO
    THEN Revert("InvalidAddress")
    ELSE IF ~_exists(s, tokenId)
    THEN Revert("FighterDoesNotExist")
    ELSE IF s._owners[tokenId] # from
    THEN Revert("NotAuthorized")
    ELSE TransferEffects(s, from, to, tokenId)

\* _transfer as run by sender; the modifier nonZeroAddress(to) runs before the
\* body.
_transfer(s, sender, from, to, tokenId) ==
    IF to = ZERO
    THEN Revert("InvalidAddress")       \* modifier nonZeroAddress(to)
    ELSE IF ~_exists(s, tokenId)
    THEN Revert("FighterDoesNotExist")
    ELSE IF s._owners[tokenId] # from
    THEN Revert("NotAuthorized")
    ELSE IF ~_isApprovedOrOwner(s, sender, tokenId, s._owners[tokenId])
    THEN Revert("NotAuthorized")
    ELSE TransferEffects(s, from, to, tokenId)

(* -------------------------- entry points ------------------------------- *)

\* mintFighter that forgets to advance _nextTokenId.
MintWithoutNextId(s, sender, agility, strength, stamina) ==
    LET tokenId == s._nextTokenId
        counted == [ s EXCEPT !._totalMinted = @ + 1 ]
        created == _createAttributes(agility, strength, stamina)
        stored  == [ counted EXCEPT !._fighterAttributes[tokenId] = created.attributes ]
        granted == _allowViewer(
                       _allowContract(stored, stored._fighterAttributes[tokenId]),
                       stored._fighterAttributes[tokenId], sender)
        minted  == _mint(granted, sender, tokenId)
    IN  IF ~created.ok
        THEN created
        ELSE IF ~minted.ok
        THEN minted
        ELSE Ok(minted.st, tokenId)

\* mintFighter that returns, instead of reverting, when validation fails.
MintReturnsOnInvalid(s, sender, agility, strength, stamina) ==
    LET tokenId == s._nextTokenId
        counted == [ s EXCEPT !._nextTokenId = @ + 1, !._totalMinted = @ + 1 ]
        created == _createAttributes(agility, strength, stamina)
        stored  == [ counted EXCEPT !._fighterAttributes[tokenId] = created.attributes ]
        granted == _allowViewer(
                       _allowContract(stored, stored._fighterAttributes[tokenId]),
                       stored._fighterAttributes[tokenId], sender)
        minted  == _mint(granted, sender, tokenId)
    IN  IF ~created.ok
        THEN Ok(counted, 0)
        ELSE IF ~minted.ok
        THEN minted
        ELSE Ok(minted.st, tokenId)

\* mintFighter that forgets to count the mint in _totalMinted.
MintWithoutCount(s, sender, agility, strength, stamina) ==
    LET tokenId == s._nextTokenId
        counted == [ s EXCEPT !._nextTokenId = @ + 1 ]
        created == _createAttributes(agility, strength, stamina)
        stored  == [ counted EXCEPT !._fighterAttributes[tokenId] = created.attributes ]
        granted == _allowViewer(
                       _allowContract(stored, stored._fighterAttributes[tokenId]),
                       stored._fighterAttributes[tokenId], sender)
        minted  == _mint(granted, sender, tokenId)
    IN  IF ~created.ok
        THEN created
        ELSE IF ~minted.ok
        THEN minted
        ELSE Ok(minted.st, tokenId)

\* mintFighter as run by sender: the counters are bumped first and the
\* revert of a failed validation discards the bump.
mintFighter(s, sender, agility, strength, stamina) ==
    LET tokenId == s._nextTokenId
        counted == [ s EXCEPT !._nextTokenId = @ + 1, !._totalMinted = @ + 1 ]
        created == _createAttributes(agility, strength, stamina)
        stored  == [ counted EXCEPT !._fighterAttributes[tokenId] = created.attributes ]
        granted == _allowViewer(
                       _allowContract(stored, stored._fighterAttributes[tokenId]),
                       stored._fighterAttributes[tokenId], sender)
        minted  == _mint(granted, sender, tokenId)
    IN  IF ~created.ok
        THEN created
        ELSE IF ~minted.ok
        THEN minted
        ELSE Ok(minted.st, tokenId)

\* updateAttributes that validates the triple before it authorizes the caller.
UpdateValidatesFirst(s, sender, tokenId, agility, strength, stamina) ==
    LET owner   == s._owners[tokenId]
        created == _createAttributes(agility, strength, stamina)
        stored  == [ s EXCEPT !._fighterAttributes[tokenId] = created.attributes ]
    IN  IF ~_exists(s, tokenId)
        THEN Revert("FighterDoesNotExist")
        ELSE IF ~created.ok
        THEN created
        ELSE IF ~_isApprovedOrOwner(s, sender, tokenId, owner)
        THEN Revert("NotAuthorized")
        ELSE Ok(_allowViewer(
                    _allowContract(stored, stored._fighterAttributes[tokenId]),
                    stored._fighterAttributes[tokenId], owner), 0)

\* updateAttributes without the _isApprovedOrOwner check.
UpdateWithoutAuthorization(s, sender, tokenId, agility, strength, stamina) ==
    LET owner   == s._owners[tokenId]
        created == _createAttributes(agility, strength, stamina)
        stored  == [ s EXCEPT !._fighterAttributes[tokenId] = created.attributes ]
    IN  IF ~_exists(s, tokenId)
        THEN Revert("FighterDoesNotExist")
        ELSE IF ~created.ok
        THEN created
        ELSE Ok(_allowViewer(
                    _allowContract(stored, stored._fighterAttributes[tokenId]),
                    stored._fighterAttributes[tokenId], owner), 0)

\* updateAttributes that also deletes the token's approval, as _transfer does.
UpdateClearsApproval(s, sender, tokenId, agility, strength, stamina) ==
    LET owner   == s._owners[tokenId]
        created == _createAttributes(agility, strength, stamina)
        stored  == [ s EXCEPT !._fighterAttributes[tokenId] = created.attributes,
                              !._tokenApprovals[tokenId] = ZERO ]
    IN  IF ~_exists(s, tokenId)
        THEN Revert("FighterDoesNotExist")
        ELSE IF ~_isApprovedOrOwner(s, sender, tokenId, owner)
        THEN Revert("NotAuthorized")
        ELSE IF ~created.ok
        THEN created
        ELSE Ok(_allowViewer(
                    _allowContract(stored, stored._fighterAttributes[tokenId]),
                    stored._fighterAttributes[tokenId], owner), 0)

\* updateAttributes that grants msg.sender as well as the owner.
UpdateGrantsSenderToo(s, sender, tokenId, agility, strength, stamina) ==
    LET owner   == s._owners[tokenId]
        created == _createAttributes(agility, strength, stamina)
        stored  == [ s EXCEPT !._fighterAttributes[tokenId] = created.attributes ]
    IN  IF ~_exists(s, tokenId)
        THEN Revert("FighterDoesNotExist")
        ELSE IF ~_isApprovedOrOwner(s, sender, tokenId, owner)
        THEN Revert("NotAuthorized")
        ELSE IF ~created.ok
        THEN created
        ELSE Ok(_allowViewer(
                    _allowViewer(
                        _allowContract(stored, stored._fighterAttributes[tokenId]),
                        stored._fighterAttributes[tokenId], owner),
                    stored._fighterAttributes[tokenId], sender), 0)

\* updateAttributes that grants msg.sender instead of the owner.
UpdateGrantsSender(s, sender, tokenId, agility, strength, stamina) ==
    LET owner   == s._owners[tokenId]
        created == _createAttributes(agility, strength, stamina)
        stored  == [ s EXCEPT !._fighterAttributes[tokenId] = created.attributes ]
    IN  IF ~_exists(s, tokenId)
        THEN Revert("FighterDoesNotExist")
        ELSE IF ~_isApprovedOrOwner(s, sender, tokenId, owner)
        THEN Revert("NotAuthorized")
        ELSE IF ~created.ok
        THEN created
        ELSE Ok(_allowViewer(
                    _allowContract(stored, stored._fighterAttributes[tokenId]),
                    stored._fighterAttributes[tokenId], sender), 0)

\* updateAttributes that encrypts and stores whatever it is given.
UpdateWithoutValidation(s, sender, tokenId, agility, strength, stamina) ==
    LET owner   == s._owners[tokenId]
        stored  == [ s EXCEPT !._fighterAttributes[tokenId] =
                                 [ agility  |-> asEuint32(agility),
                                   strength |-> asEuint32(strength),
                                   stamina  |-> asEuint32(stamina) ] ]
    IN  IF ~_exists(s, tokenId)
        THEN Revert("FighterDoesNotExist")
        ELSE IF ~_isApprovedOrOwner(s, sender, tokenId, owner)
        THEN Revert("NotAuthorized")
        ELSE Ok(_allowViewer(
                    _allowContract(stored, stored._fighterAttributes[tokenId]),
                    stored._fighterAttributes[tokenId], owner), 0)

updateAttributes(s, sender, tokenId, agility, strength, stamina) ==
    LET owner   == s._owners[tokenId]
        created == _createAttributes(agility, strength, stamina)
        stored  == [ s EXCEPT !._fighterAttributes[tokenId] = created.attributes ]
    IN  IF ~_exists(s, tokenId)
        THEN Revert("FighterDoesNotExist")
        ELSE IF ~_isApprovedOrOwner(s, sender, tokenId, owner)
        THEN Revert("NotAuthorized")
        ELSE IF ~created.ok
        THEN created
        ELSE Ok(_allowViewer(
                    _allowContract(stored, stored._fighterAttributes[tokenId]),
                    stored._fighterAttributes[tokenId], owner), 0)

\* allowViewer that also makes the viewer the token's approved address.
AllowViewerAlsoApproves(s, sender, tokenId, viewer) ==
    IF ~_exists(s, tokenId)
    THEN Revert("FighterDoesNotExist")
    ELSE IF viewer = ZERO
    THEN Revert("InvalidAddress")
    ELSE IF ~_isApprovedOrOwner(s, sender, tokenId, s._owners[tokenId])
    THEN Revert("NotAuthorized")
    ELSE Ok(_allowViewer([ s EXCEPT !._tokenApprovals[tokenId] = viewer ],
                         s._fighterAttributes[tokenId], viewer), 0)

allowViewer(s, sender, tokenId, viewer) ==
    IF ~_exists(s, tokenId)
    THEN Revert("FighterDoesNotExist")
    ELSE IF viewer = ZERO
    THEN Revert("InvalidAddress")
    ELSE IF ~_isApprovedOrOwner(s, sender, tokenId, s._owners[tokenId])
    THEN Revert("NotAuthorized")
    ELSE Ok(_allowViewer(s, s._fighterAttributes[tokenId], viewer), 0)

\* approve that authorizes with _isApprovedOrOwner, letting the approved
\* address pass the approval on.
ApproveByApprovedOrOwner(s, sender, to, tokenId) ==
    IF ~_exists(s, tokenId)
    THEN Revert("FighterDoesNotExist")
    ELSE IF ~_isApprovedOrOwner(s, sender, tokenId, s._owners[tokenId])
    THEN Revert("NotAuthorized")
    ELSE Ok([ s EXCEPT !._tokenApprovals[tokenId] = to ], 0)

approve(s, sender, to, tokenId) ==
    IF ~_exists(s, tokenId)
    THEN Revert("FighterDoesNotExist")
    ELSE IF /\ sender # s._owners[tokenId]
            /\ ~s._operatorApprovals[s._owners[tokenId]][sender]
    THEN Revert("NotAuthorized")
    ELSE Ok([ s EXCEPT !._tokenApprovals[tokenId] = to ], 0)

setApprovalForAll(s, sender, operator, approved) ==
    Ok([ s EXCEPT !._operatorApprovals[sender][operator] = approved ], 0)

transferFrom(s, sender, from, to, tokenId) ==
    _transfer(s, sender, from, to, tokenId)

(* ------------------------------ queries -------------------------------- *)

totalSupply(s) == s._totalMinted

balanceOf(s, owner) ==
    IF owner = ZERO THEN Revert("InvalidAddress") ELSE Ok(s, s._balances[owner])

\* ownerOf without the onlyExistingToken modifier.
OwnerOfWithoutCheck(s, tokenId) == Ok(s, s._owners[tokenId])

ownerOf(s, tokenId) ==
    IF ~_exists(s, tokenId)
    THEN Revert("FighterDoesNotExist")
    ELSE Ok(s, s._owners[tokenId])

getApproved(s, tokenId) ==
    IF ~_exists(s, tokenId)
    THEN Revert("FighterDoesNotExist")
    ELSE Ok(s, s._tokenApprovals[tokenId])

isApprovedForAll(s, owner, operator) == s._operatorApprovals[owner][operator]

fightersOf(s, owner) == s._ownedTokens[owner]

getEncryptedAttributes(s, tokenId) ==
    IF ~_exists(s, tokenId)
    THEN Revert("FighterDoesNotExist")
    ELSE Ok(s, s._fighterAttributes[tokenId])

(* ------------------------------ actions -------------------------------- *)

\* The record of a call: which entry point, by whom, with which arguments;
\* err is "InCallback" while its onERC721Received call runs, and hook tells
\* that the call ended after one.
Call(op, sender, tokenId, from, to, approved, points) ==
    [ op |-> op, sender |-> sender, tokenId |-> tokenId, from |-> from,
      to |-> to, approved |-> approved, points |-> points,
      err |-> NoError, ret |-> 0, hook |-> FALSE ]

NoPoints == << 0, 0, 0 >>

\* The storage variables take the values of the storage s.
Commit(s) ==
    /\ _nextTokenId' = s._nextTokenId
    /\ _totalMinted' = s._totalMinted
    /\ _owners' = s._owners
    /\ _balances' = s._balances
    /\ _tokenApprovals' = s._tokenApprovals
    /\ _operatorApprovals' = s._operatorApprovals
    /\ _fighterAttributes' = s._fighterAttributes
    /\ _ownedTokens' = s._ownedTokens
    /\ _ownedTokensIndex' = s._ownedTokensIndex
    /\ acl' = s.acl

\* Who can be msg.sender: any account between transactions, only an account
\* with code while an onERC721Received call is running.
CanCall(sender) ==
    IF callStack = << >> THEN sender \in Accounts ELSE sender \in Contracts

\* A call with result r takes a step when it returns: its writes are committed
\* and it becomes the last call.  A call that reverts changes nothing, which
\* is a stuttering step.
Finish(call, r) ==
    /\ nops < MaxOps
    /\ r.ok
    /\ Commit(r.st)
    /\ nops' = nops + 1
    /\ last' = [ call EXCEPT !.ret = r.ret ]
    /\ UNCHANGED callStack

MintFighter(sender, points) ==
    /\ CanCall(sender)
    /\ _nextTokenId <= MaxTokens
    /\ Finish(Call("mintFighter", sender, 0, ZERO, ZERO, FALSE, points),
              mintFighter(storage, sender, points[1], points[2], points[3]))
    /\ UNCHANGED clientVars

UpdateAttributes(sender, tokenId, points) ==
    /\ CanCall(sender)
    /\ Finish(Call("updateAttributes", sender, tokenId, ZERO, ZERO, FALSE, points),
              updateAttributes(storage, sender, tokenId,
                               points[1], points[2], points[3]))
    /\ UNCHANGED clientVars

AllowViewer(sender, tokenId, viewer) ==
    /\ CanCall(sender)
    /\ Finish(Call("allowViewer", sender, tokenId, ZERO, viewer, FALSE, NoPoints),
              allowViewer(storage, sender, tokenId, viewer))
    /\ UNCHANGED clientVars

Approve(sender, to, tokenId) ==
    /\ CanCall(sender)
    /\ Finish(Call("approve", sender, tokenId, ZERO, to, FALSE, NoPoints),
              approve(storage, sender, to, tokenId))
    /\ UNCHANGED clientVars

SetApprovalForAll(sender, operator, approved) ==
    /\ CanCall(sender)
    /\ Finish(Call("setApprovalForAll", sender, 0, ZERO, operator, approved, NoPoints),
              setApprovalForAll(storage, sender, operator, approved))
    /\ UNCHANGED clientVars

TransferFrom(sender, from, to, tokenId) ==
    /\ CanCall(sender)
    /\ Finish(Call("transferFrom", sender, tokenId, from, to, FALSE, NoPoints),
              transferFrom(storage, sender, from, to, tokenId))
    /\ UNCHANGED clientVars

\* safeTransferFrom that calls the receiver between _beforeTokenTransfer and
\* the writes of approval, balances and owner.
SafeTransferCallsBeforeEffects(sender, from, to, tokenId) ==
    LET call  == Call("safeTransferFrom", sender, tokenId, from, to, FALSE, NoPoints)
        r     == _transfer(storage, sender, from, to, tokenId)
        early == _beforeTokenTransfer(storage, from, to, tokenId)
    IN  /\ CanCall(sender)
        /\ IF to \notin Contracts
           THEN Finish(call, r)
           ELSE /\ nops < MaxOps
                /\ r.ok
                /\ Len(callStack) < MaxDepth
                /\ Commit(early.st)
                /\ nops' = nops + 1
                /\ callStack' = << [ snapshot |-> storage, call |-> call ] >>
                                    \o callStack
                /\ last' = [ call EXCEPT !.err = "InCallback" ]
        /\ UNCHANGED clientVars

\* safeTransferFrom (both overloads): _transfer, then, when the receiver has
\* code, the external onERC721Received call, during which the transfer's
\* writes are in place and the receiver can call back in.
SafeTransferFrom(sender, from, to, tokenId) ==
    LET call == Call("safeTransferFrom", sender, tokenId, from, to, FALSE, NoPoints)
        r    == _transfer(storage, sender, from, to, tokenId)
    IN  /\ CanCall(sender)
        /\ IF to \notin Contracts
           THEN Finish(call, r)
           ELSE /\ nops < MaxOps
                /\ r.ok
                /\ Len(callStack) < MaxDepth
                /\ Commit(r.st)
                /\ nops' = nops + 1
                /\ callStack' = << [ snapshot |-> storage, call |-> call ] >>
                                    \o callStack
                /\ last' = [ call EXCEPT !.err = "InCallback" ]
        /\ UNCHANGED clientVars

\* A safeTransferFrom that reports the refusal of the receiver without
\* reverting.
ReceivedWithoutRevert(accepted) ==
    /\ callStack # << >>
    /\ UNCHANGED storageVars
    /\ last' = [ Head(callStack).call EXCEPT
                   !.err = IF accepted THEN NoError ELSE "NotAuthorized",
                   !.hook = TRUE ]
    /\ callStack' = Tail(callStack)
    /\ UNCHANGED nops
    /\ UNCHANGED clientVars

\* onERC721Received returns.  Anything but the expected selector (a wrong
\* value or a revert, which the try/catch turns into false) makes
\* safeTransferFrom revert with NotAuthorized, discarding every write made
\* since it was entered.
OnERC721Received(accepted) ==
    /\ callStack # << >>
    /\ IF accepted
       THEN UNCHANGED storageVars
       ELSE Commit(Head(callStack).snapshot)
    /\ last' = [ Head(callStack).call EXCEPT
                   !.err = IF accepted THEN NoError ELSE "NotAuthorized",
                   !.hook = TRUE ]
    /\ callStack' = Tail(callStack)
    /\ UNCHANGED nops
    /\ UNCHANGED clientVars

(* ------------------------------ clients -------------------------------- *)

\* null of the string | null states.
Null == "null"

\* null of DecryptedAttributes | null.
NoAttributes == << >>

\* The task before its mintFighter call.
TaskStart == [ pc |-> "start", tokenId |-> 0, reported |-> 0 ]

\* The clients before they act: the task not started, FighterApp mounted
\* with no wallet connected (the first run of the load effect takes the
\* early return and leaves the initial state as it is), the card untouched.
ClientInit ==
    /\ task = TaskStart
    /\ connectedAddress = ZERO
    /\ publicClient = TRUE
    /\ refreshIndex = 0
    /\ fighters = << >>
    /\ listError = Null
    /\ isLoadingFighters = FALSE
    /\ isMinting = FALSE
    /\ mintError = Null
    /\ mintSuccess = Null
    /\ loads = << >>
    /\ decrypted = NoAttributes
    /\ isDecrypting = FALSE
    /\ decryptError = Null
    /\ isEditing = FALSE
    /\ updateValues = << 0, 0, 0 >>
    /\ updateError = Null
    /\ isUpdating = FALSE
    /\ decrypts = << >>

Init ==
    /\ _nextTokenId = 1
    /\ _totalMinted = 0
    /\ _owners = [ t \in TokenIds |-> ZERO ]
    /\ _balances = [ a \in Address |-> 0 ]
    /\ _tokenApprovals = [ t \in TokenIds |-> ZERO ]
    /\ _operatorApprovals = [ a \in Accounts |-> [ b \in Accounts |-> FALSE ] ]
    /\ _fighterAttributes = [ t \in TokenIds |-> EmptyAttributes ]
    /\ _ownedTokens = [ a \in Address |-> << >> ]
    /\ _ownedTokensIndex = [ t \in TokenIds |-> 0 ]
    /\ acl = {}
    /\ callStack = << >>
    /\ last = Call("constructor", ZERO, 0, ZERO, ZERO, FALSE, NoPoints)
    /\ nops = 0
    /\ ClientInit

Next ==
    \/ \E sender \in Accounts, points \in Distributions :
          MintFighter(sender, points)
    \/ \E sender \in Accounts, tokenId \in TokenArgs, points \in Distributions :
          UpdateAttributes(sender, tokenId, points)
    \/ \E sender \in Accounts, tokenId \in TokenArgs, viewer \in Address :
          AllowViewer(sender, tokenId, viewer)
    \/ \E sender \in Accounts, to \in Address, tokenId \in TokenArgs :
          Approve(sender, to, tokenId)
    \/ \E sender \in Accounts, operator \in Accounts, approved \in BOOLEAN :
          SetApprovalForAll(sender, operator, approved)
    \/ \E sender \in Accounts, from \in Accounts, to \in Address,
          tokenId \in TokenArgs :
          TransferFrom(sender, from, to, tokenId)
    \/ \E sender \in Accounts, from \in Accounts, to \in Address,
          tokenId \in TokenArgs :
          SafeTransferFrom(sender, from, to, tokenId)
    \/ \E accepted \in BOOLEAN : OnERC721Received(accepted)

Spec == Init /\ [][Next]_vars

(* ------------------------ vocabulary of the claims --------------------- *)

\* The token ids that exist.
Existing(s) == { t \in TokenIds : _exists(s, t) }

\* The handles currently stored for a token.
CurrentHandles(s, tokenId) == HandlesOf(s._fighterAttributes[tokenId])

Range(seq) == { seq[i] : i \in 1 .. Len(seq) }

Occurrences(seq, x) == Cardinality({ i \in 1 .. Len(seq) : seq[i] = x })

RECURSIVE SumOfLengths(_, _)
SumOfLengths(s, owners) ==
    IF owners = {}
    THEN 0
    ELSE LET a == CHOOSE x \in owners : TRUE
         IN  Len(fightersOf(s, a)) + SumOfLengths(s, owners \ {a})

Transfers == { "transferFrom", "safeTransferFrom" }

\* A step in which a call returned or, for safeTransferFrom to an account
\* with code, finished _transfer and entered onERC721Received.
CallStep == nops' = nops + 1

\* A step that is the _transfer of a transferFrom or safeTransferFrom call.
TransferStep == CallStep /\ last'.op \in Transfers

(* ------------------------------- claims -------------------------------- *)

\* C1  Conservation: in every reachable state, for every owner the length of
\* fightersOf(owner) is the number of existing tokens whose owner it is, and
\* the lengths summed over all owners give totalSupply().
C1_Conservation ==
    /\ \A owner \in Address :
          Len(fightersOf(storage, owner)) =
             Cardinality({ t \in Existing(storage) : _owners[t] = owner })
    /\ SumOfLengths(storage, Address) = totalSupply(storage)

\* Two owners hold one token each after a transfer moved one of two tokens.
C1_Witness ==
    /\ last.op \in Transfers
    /\ last.from # last.to
    /\ totalSupply(storage) = 2
    /\ Len(fightersOf(storage, last.from)) = 1
    /\ Len(fightersOf(storage, last.to)) = 1

\* C2  Reverse index: in every reachable state, for every existing token t,
\* _ownedTokensIndex[t] is a valid index of _ownedTokens[owner of t] and the
\* entry at that index is t.
C2_ReverseIndex ==
    \A t \in Existing(storage) :
        /\ _ownedTokensIndex[t] < Len(_ownedTokens[_owners[t]])
        /\ _ownedTokens[_owners[t]][_ownedTokensIndex[t] + 1] = t

\* A transfer took the first of an owner's two tokens: the last one was
\* swapped into slot 0.
C2_Witness ==
    /\ last.op \in Transfers
    /\ last.tokenId = 1
    /\ last.from # last.to
    /\ _ownedTokens[last.from] = << 2 >>
    /\ _ownedTokensIndex[2] = 0

\* Every existing token is once in its owner's list and in no other list; no
\* list holds a duplicate or an id that does not exist.
ListsMatchOwners(s) ==
    /\ \A t \in Existing(s) :
          \A a \in Address :
              Occurrences(fightersOf(s, a), t) = IF s._owners[t] = a THEN 1 ELSE 0
    /\ \A a \in Address : Range(fightersOf(s, a)) \subseteq Existing(s)

\* C3  After the _transfer of a successful transfer(A, B, t) with A # B,
\* fightersOf(A) does not contain t and fightersOf(B) contains t exactly
\* once; and in every reachable state the lists match the owners.
C3_ListMembership ==
    /\ [] ListsMatchOwners(storage)
    /\ [][ (TransferStep /\ last'.from # last'.to) =>
              /\ last'.tokenId \notin Range(_ownedTokens'[last'.from])
              /\ Occurrences(_ownedTokens'[last'.to], last'.tokenId) = 1 ]_vars

\* alice's token 1 went to bob, who already held token 2.
C3_Witness ==
    /\ last.op \in Transfers
    /\ last.from = "alice" /\ last.to = "bob" /\ last.tokenId = 1
    /\ fightersOf(storage, "alice") = << >>
    /\ fightersOf(storage, "bob") = << 2, 1 >>

\* C4  Transfer auto-grant: the _transfer of every successful transferFrom /
\* safeTransferFrom(A, B, t) leaves t's three handles as they were and B
\* allowed on each of them; and whenever the last call is a returned
\* transfer to B, B is allowed on the handles currently stored for t.
C4_TransferAutoGrant ==
    /\ [][ TransferStep =>
              /\ _fighterAttributes'[last'.tokenId] = _fighterAttributes[last'.tokenId]
              /\ \A h \in HandlesOf(_fighterAttributes'[last'.tokenId]) :
                    << h, last'.to >> \in acl' ]_vars
    /\ [] ( (last.op \in Transfers /\ last.err = NoError) =>
               \A h \in CurrentHandles(storage, last.tokenId) :
                   isAllowed(storage, h, last.to) )

\* bob received alice's token as the second call ever (a mint, then the
\* transfer): no allowViewer call was made, and bob reads the three handles.
C4_Witness ==
    /\ nops = 2
    /\ last.op \in Transfers
    /\ last.err = NoError
    /\ last.from = "alice" /\ last.to = "bob"
    /\ _owners[last.tokenId] = "bob"
    /\ \A h \in CurrentHandles(storage, last.tokenId) : isAllowed(storage, h, "bob")

\* The attribute policy: each value in [0, 10] and the three summing to 10.
WithinPolicy(agility, strength, stamina) ==
    /\ agility \in 0 .. 10
    /\ strength \in 0 .. 10
    /\ stamina \in 0 .. 10
    /\ agility + strength + stamina = 10

\* In storage s, mintFighter by anyone and updateAttributes by anyone
\* authorized for an existing token succeed exactly for the triples of
\* points that are within the policy.
SucceedIffWithinPolicy(s, points) ==
    \A a \in points, b \in points, c \in points :
        \A sender \in Accounts :
            /\ s._nextTokenId \in TokenArgs =>
                  (mintFighter(s, sender, a, b, c).ok <=> WithinPolicy(a, b, c))
            /\ \A t \in Existing(s) :
                  _isApprovedOrOwner(s, sender, t, s._owners[t]) =>
                     (updateAttributes(s, sender, t, a, b, c).ok
                         <=> WithinPolicy(a, b, c))

\* C5  Sum invariant at write time: mintFighter(a, s, m) by any caller, and
\* updateAttributes(t, a, s, m) by an authorized caller on an existing token,
\* succeed iff each of a, s, m is in [0, 10] and a + s + m = 10.  Checked for
\* every triple over 0 .. MaxPoint on the states up to one call from the
\* initial one and for the triples the calls submit on every state;
\* mint(5, 3, 3) fails with AttributeTotalMismatch and a mint or update that
\* went through carried a triple within the policy.
C5_SumInvariantAtWrite ==
    /\ nops <= 1 => SucceedIffWithinPolicy(storage, WidePoints)
    /\ \A p \in Distributions :
          \A sender \in Accounts :
              /\ _nextTokenId \in TokenArgs =>
                    (mintFighter(storage, sender, p[1], p[2], p[3]).ok
                        <=> WithinPolicy(p[1], p[2], p[3]))
              /\ \A t \in Existing(storage) :
                    _isApprovedOrOwner(storage, sender, t, _owners[t]) =>
                       (updateAttributes(storage, sender, t, p[1], p[2], p[3]).ok
                           <=> WithinPolicy(p[1], p[2], p[3]))
    /\ \A sender \in Accounts :
          _nextTokenId \in TokenArgs =>
             mintFighter(storage, sender, 5, 3, 3).err = "AttributeTotalMismatch"
    /\ last.op \in { "mintFighter", "updateAttributes" } =>
          WithinPolicy(last.points[1], last.points[2], last.points[3])

\* mint(4, 3, 3) went through, and in the state it left a mint(5, 3, 3)
\* fails with AttributeTotalMismatch and so does the owner's update to it.
C5_Witness ==
    /\ last.op = "mintFighter"
    /\ last.points = << 4, 3, 3 >>
    /\ _exists(storage, last.ret)
    /\ mintFighter(storage, "bob", 5, 3, 3).err = "AttributeTotalMismatch"
    /\ updateAttributes(storage, last.sender, last.ret, 5, 3, 3).err =
           "AttributeTotalMismatch"

\* C6  Stored-record policy: in every reachable state every existing token
\* has a record of three handles whose plaintexts are each in [0, 10] and
\* sum to 10.
C6_StoredRecordPolicy ==
    \A t \in Existing(storage) :
        /\ NullHandle \notin CurrentHandles(storage, t)
        /\ WithinPolicy(Plaintext(_fighterAttributes[t].agility),
                        Plaintext(_fighterAttributes[t].strength),
                        Plaintext(_fighterAttributes[t].stamina))

\* A token minted with one triple was updated to another one.
C6_Witness ==
    /\ last.op = "updateAttributes"
    /\ Plaintext(_fighterAttributes[last.tokenId].agility) = 2
    /\ Plaintext(_fighterAttributes[last.tokenId].strength) = 5
    /\ Plaintext(_fighterAttributes[last.tokenId].stamina) = 3
    /\ \E t \in Existing(storage) : t # last.tokenId

\* The token a call acts on.
TokenOf(call) == IF call.op = "mintFighter" THEN call.ret ELSE call.tokenId

\* C7  Privacy reset: the step of every successful updateAttributes(t, ...)
\* leaves the service and the owner allowed on t's three new handles, and
\* when the call before it was allowViewer(t, v) for a v that is not the
\* owner, v is allowed on none of the new handles.
C7_GrantResetOnUpdate ==
    [][ (CallStep /\ last'.op = "updateAttributes") =>
           /\ \A h \in HandlesOf(_fighterAttributes'[last'.tokenId]) :
                 /\ << h, THIS >> \in acl'
                 /\ << h, _owners'[last'.tokenId] >> \in acl'
           /\ ( /\ last.op = "allowViewer"
                /\ last.tokenId = last'.tokenId
                /\ last.to # _owners'[last'.tokenId] ) =>
                 \A h \in HandlesOf(_fighterAttributes'[last'.tokenId]) :
                     << h, last.to >> \notin acl' ]_vars

\* C8  Confidentiality: after exactly two mints (no grant and no transfer
\* was ever made) the handles of a token are readable by the service and its
\* minter only; and no call acting on a token u adds a reader to a current
\* handle of another token t.
C8_Confidentiality ==
    /\ [] ( (nops = 2 /\ totalSupply(storage) = 2) =>
               \A t \in Existing(storage) :
                   \A h \in CurrentHandles(storage, t) :
                       Readers(storage, h) \subseteq { THIS, _owners[t] } )
    /\ [][ CallStep =>
              \A t \in Existing(storage) \ { TokenOf(last') } :
                  \A h \in CurrentHandles(storage, t) :
                      \A x \in Accounts \cup {THIS} :
                          << h, x >> \in acl' => << h, x >> \in acl ]_vars

\* The allowances that survive whatever the running transaction does: the
\* ACL itself between transactions, the ACL the outermost safeTransferFrom
\* started from while its onERC721Received call runs.
committedAcl ==
    IF callStack = << >>
    THEN acl
    ELSE callStack[Len(callStack)].snapshot.acl

\* The step in which a safeTransferFrom reverts after onERC721Received.
RejectStep == Len(callStack') < Len(callStack) /\ last'.err = "NotAuthorized"

C10_StructuralGrants ==
    \A t \in Existing(storage) :
        \A h \in CurrentHandles(storage, t) :
            /\ isAllowed(storage, h, THIS)
            /\ isAllowed(storage, h, _owners[t])

\* A delegate that is not the owner updated a token to a triple no earlier
\* call had used.
C10_Witness ==
    /\ last.op = "updateAttributes"
    /\ last.sender # _owners[last.tokenId]
    /\ last.points = << 0, 10, 0 >>
    /\ ~isAllowed(storage, asEuint32(10), last.sender)

\* C11  Update by a delegate: on the step of every successful
\* updateAttributes(t, ...) whose caller d is not the owner of t, the
\* allowances the call adds are allowances of the contract itself and of the
\* owner on t's new handles, and d is allowed on a new handle only if it was
\* allowed on that handle before the call.
C11_DelegateGetsNoGrant ==
    [][ ( /\ CallStep
          /\ last'.op = "updateAttributes"
          /\ last'.sender # _owners[last'.tokenId] ) =>
           /\ acl' = acl \cup
                 { << h, x >> :
                     h \in HandlesOf(_fighterAttributes'[last'.tokenId]),
                     x \in { THIS, _owners[last'.tokenId] } }
           /\ \A h \in HandlesOf(_fighterAttributes'[last'.tokenId]) :
                 << h, last'.sender >> \in acl' => << h, last'.sender >> \in acl
      ]_vars

\* A delegate updated a token and is allowed on none of its current handles.
C11_Witness ==
    /\ last.op = "updateAttributes"
    /\ _exists(storage, last.tokenId)
    /\ last.sender # _owners[last.tokenId]
    /\ \A h \in CurrentHandles(storage, last.tokenId) :
          ~isAllowed(storage, h, last.sender)

\* The storage that stays if the running transaction reverts: the storage
\* itself between transactions, the storage the outermost safeTransferFrom
\* started from while its onERC721Received call runs.
committed ==
    IF callStack = << >>
    THEN storage
    ELSE callStack[Len(callStack)].snapshot

\* C12  Token ids: in every reachable state the next id is totalSupply() + 1
\* and a token id exists iff 1 <= id <= totalSupply(); every successful
\* mintFighter returns totalSupply() + 1 and raises totalSupply() by one, no
\* other returning call changes totalSupply(), and the committed
\* totalSupply() never decreases.
C12_TokenIdsMonotonic ==
    /\ [] ( /\ _nextTokenId = totalSupply(storage) + 1
            /\ \A id \in TokenIds :
                  _exists(storage, id) <=> (1 <= id /\ id <= totalSupply(storage)) )
    /\ [][ (CallStep /\ last'.op = "mintFighter") =>
              /\ last'.ret = totalSupply(storage) + 1
              /\ _totalMinted' = last'.ret
              /\ ~_exists(storage, last'.ret)
              /\ _owners'[last'.ret] = last'.sender ]_vars
    /\ [][ (CallStep /\ last'.op # "mintFighter") =>
              _totalMinted' = _totalMinted ]_vars
    /\ [][ committed'._totalMinted >= committed._totalMinted ]_vars

\* The second mint, made after a call that was not a mint, returned id 2.
C12_Witness ==
    /\ nops = 3
    /\ last.op = "mintFighter"
    /\ last.ret = 2
    /\ totalSupply(storage) = 2
    /\ _owners[1] # ZERO /\ _owners[2] # ZERO

\* The errors a failed mintFighter validation reports.
ValidationErrors == { "AttributeOutOfRange", "AttributeTotalMismatch" }

\* C13  Failed mint: in every reachable state (with an id left) a mintFighter with a triple
\* outside the policy reverts with a validation error, so none of its writes
\* (the bumped counters included) is kept, and a mintFighter with a triple
\* within the policy returns the id _nextTokenId = totalSupply() + 1; the
\* storage changes only in the step of a call that returned or of a
\* safeTransferFrom that reverts, and every mintFighter that returned had a
\* triple within the policy.
C13_FailedMintNotObservable ==
    /\ [] ( \A sender \in Accounts, points \in Distributions :
               LET r == mintFighter(storage, sender,
                                    points[1], points[2], points[3])
               IN  IF _nextTokenId > MaxTokens
                   THEN TRUE
                   ELSE IF WithinPolicy(points[1], points[2], points[3])
                   THEN /\ r.ok
                        /\ r.ret = _nextTokenId
                        /\ r.ret = totalSupply(storage) + 1
                   ELSE /\ ~r.ok
                        /\ r.err \in ValidationErrors )
    /\ [][ storage' # storage => (CallStep \/ RejectStep) ]_vars
    /\ [][ (CallStep /\ last'.op = "mintFighter") =>
              /\ WithinPolicy(last'.points[1], last'.points[2], last'.points[3])
              /\ _nextTokenId' = _nextTokenId + 1
              /\ _totalMinted' = _totalMinted + 1 ]_vars

\* After the first mint, a mint of (11, 0, 0) fails and the mint of
\* (2, 5, 3) that follows it gets id 2.
C13_Witness ==
    /\ last.op = "mintFighter"
    /\ last.ret = 1
    /\ _nextTokenId = 2 /\ totalSupply(storage) = 1
    /\ mintFighter(storage, "bob", 11, 0, 0).err = "AttributeOutOfRange"
    /\ mintFighter(storage, "bob", 2, 5, 3).ret = 2

\* The errors the contract declares.
ErrorKinds ==
    { "FighterDoesNotExist", "TokenAlreadyMinted", "NotAuthorized",
      "InvalidAddress", "AttributeTotalMismatch", "AttributeOutOfRange" }

\* A result is a return or a revert with one declared error.
ReturnsOrReverts(r) == r.ok \/ r.err \in ErrorKinds

\* C14  All-or-nothing: in every reachable state every call of a mutating
\* entry point either returns or reverts with exactly one declared error;
\* the storage changes only in the step of a call that returned or of a
\* safeTransferFrom that reverts; and a safeTransferFrom that reverts after
\* onERC721Received reports NotAuthorized and leaves the whole storage as it
\* was when it was entered.
C14_AllOrNothing ==
    /\ [] ( /\ \A sender \in Accounts, points \in Distributions :
                  /\ _nextTokenId <= MaxTokens =>
                        ReturnsOrReverts(mintFighter(storage, sender,
                            points[1], points[2], points[3]))
                  /\ \A tokenId \in TokenIds :
                        ReturnsOrReverts(updateAttributes(storage, sender,
                            tokenId, points[1], points[2], points[3]))
            /\ \A sender \in Accounts, to \in Address, tokenId \in TokenIds :
                  /\ ReturnsOrReverts(allowViewer(storage, sender, tokenId, to))
                  /\ ReturnsOrReverts(approve(storage, sender, to, tokenId))
                  /\ \A from \in Address :
                        /\ ReturnsOrReverts(transferFrom(storage, sender,
                                                         from, to, tokenId))
                        /\ ReturnsOrReverts(_transfer(storage, sender,
                                                      from, to, tokenId))
            /\ \A sender \in Accounts, operator \in Accounts, approved \in BOOLEAN :
                  setApprovalForAll(storage, sender, operator, approved).ok )
    /\ [][ storage' # storage => (CallStep \/ RejectStep) ]_vars
    /\ [][ RejectStep =>
              /\ storage' = Head(callStack).snapshot
              /\ last'.op = "safeTransferFrom"
              /\ last'.err = "NotAuthorized" ]_vars

\* A safeTransferFrom reverted after the receiver's refusal, the receiver
\* having minted inside onERC721Received: the token is back with its sender
\* and the mint is gone.
C14_Witness ==
    /\ last.op = "safeTransferFrom"
    /\ last.hook
    /\ last.err = "NotAuthorized"
    /\ nops = 3
    /\ totalSupply(storage) = 1
    /\ _owners[last.tokenId] = last.from
    /\ _ownedTokens[last.to] = << >>
    /\ \A h \in CurrentHandles(storage, last.tokenId) :
          ~isAllowed(storage, h, last.to)

\* C15  Existence: in every reachable state a token id exists (ownerOf and
\* getEncryptedAttributes answer) iff its stored owner is not address(0); no
\* step but the revert of a safeTransferFrom takes an owner away from a token
\* that has one, and a token of the committed storage keeps an owner for ever.
C15_OwnedIsTerminal ==
    /\ [] ( \A id \in TokenIds :
               /\ _exists(storage, id) <=> _owners[id] # ZERO
               /\ ownerOf(storage, id).ok <=> _owners[id] # ZERO
               /\ getEncryptedAttributes(storage, id).ok <=> _owners[id] # ZERO )
    /\ [][ RejectStep \/
           \A id \in TokenIds : _owners[id] # ZERO => _owners'[id] # ZERO ]_vars
    /\ [][ \A id \in TokenIds :
              committed._owners[id] # ZERO => committed'._owners[id] # ZERO ]_vars

\* A token was transferred to another account and exists with that owner.
C15_Witness ==
    /\ nops = 3
    /\ last.op = "transferFrom"
    /\ last.from # last.to
    /\ ownerOf(storage, last.tokenId).ok
    /\ ownerOf(storage, last.tokenId).ret = last.to

\* Every step that changes the owner of a token that has one, the revert of
\* a safeTransferFrom aside, is the _transfer of a transfer from the owner
\* to the new owner by a caller that was owner, approved or operator.
OwnerChangesByAuthorizedTransfer ==
    [][ \A t \in TokenIds :
           ( /\ _owners[t] # ZERO
             /\ _owners'[t] # _owners[t]
             /\ ~RejectStep ) =>
               /\ TransferStep
               /\ last'.tokenId = t
               /\ last'.from = _owners[t]
               /\ last'.to = _owners'[t]
               /\ last'.to # ZERO
               /\ _isApprovedOrOwner(storage, last'.sender, t, _owners[t]) ]_vars

\* On the existing tokens, a transfer to one of the addresses in targets by a
\* caller without standing, or from an address that is not the owner,
\* reverts with NotAuthorized.
UnauthorizedTransferFails(targets) ==
    \A sender \in Accounts, from \in Address, to \in targets :
        \A t \in Existing(storage) :
            ( \/ from # _owners[t]
              \/ ~_isApprovedOrOwner(storage, sender, t, _owners[t]) ) =>
                /\ _transfer(storage, sender, from, to, t) = Revert("NotAuthorized")
                /\ transferFrom(storage, sender, from, to, t) = Revert("NotAuthorized")

\* C16 (as stated)  Ownership changes only with authorization: every change
\* of owner is an authorized transfer from the owner, and on an existing
\* token every transfer, whatever its to, by a caller without standing or
\* from an address that is not the owner fails with NotAuthorized.
C16_AsStated ==
    /\ OwnerChangesByAuthorizedTransfer
    /\ [] UnauthorizedTransferFails(Address)

\* C16 (amended)  As above, with the failure stated for the transfers whose
\* to is not address(0).
C16_AuthorizedOwnerChange ==
    /\ OwnerChangesByAuthorizedTransfer
    /\ [] UnauthorizedTransferFails(Accounts)

\* The approved address moved the token to a third account, which cleared
\* the approval: its transfer back fails with NotAuthorized.
C16_Witness ==
    /\ last.op = "transferFrom"
    /\ last.sender \notin { last.from, last.to }
    /\ last.from # last.to
    /\ _owners[last.tokenId] = last.to
    /\ _transfer(storage, last.sender, last.to, last.from, last.tokenId)
          = Revert("NotAuthorized")

\* C17  updateAttributes checks: in every reachable state, for every caller
\* and triple, updateAttributes reverts with FighterDoesNotExist on a token
\* id without owner and with NotAuthorized on an existing token whose owner,
\* approved address and operators do not include the caller, and otherwise
\* returns or fails validation; and the record of an existing token changes,
\* the revert of a safeTransferFrom aside, only in the step of an
\* updateAttributes of that token by such a caller.
C17_UpdateChecks ==
    /\ [] ( \A sender \in Accounts, points \in Distributions, t \in TokenIds :
               LET r == updateAttributes(storage, sender, t,
                                         points[1], points[2], points[3])
               IN  IF ~_exists(storage, t)
                   THEN r = Revert("FighterDoesNotExist")
                   ELSE IF ~_isApprovedOrOwner(storage, sender, t, _owners[t])
                   THEN r = Revert("NotAuthorized")
                   ELSE r.ok \/ r.err \in ValidationErrors )
    /\ [][ \A t \in TokenIds :
              ( /\ _exists(storage, t)
                /\ _fighterAttributes'[t] # _fighterAttributes[t]
                /\ ~RejectStep ) =>
                  /\ CallStep
                  /\ last'.op = "updateAttributes"
                  /\ last'.tokenId = t
                  /\ _isApprovedOrOwner(storage, last'.sender, t, _owners[t])
       ]_vars

\* The owner replaced the record of token 1; an account without standing
\* cannot, and nobody can update token 2, which was never minted.
C17_Witness ==
    /\ nops = 2
    /\ last.op = "updateAttributes"
    /\ last.tokenId = 1
    /\ last.sender = _owners[1]
    /\ last.points = << 2, 5, 3 >>
    /\ Plaintext(_fighterAttributes[1].strength) = 5
    /\ updateAttributes(storage, "receiver", 1, 4, 3, 3).ok = FALSE
    /\ updateAttributes(storage, last.sender, 2, 4, 3, 3)
          = Revert("FighterDoesNotExist")

\* C18  Frame of update: the step of a successful updateAttributes(t, ...)
\* leaves owners, balances, the owners' lists and positions, every token
\* approval, every operator approval, the id counter and totalSupply and the
\* records of the other tokens unchanged; it removes no allowance and adds
\* allowances on t's new handles only.
C18_UpdateFrame ==
    [][ (CallStep /\ last'.op = "updateAttributes") =>
           /\ UNCHANGED << _owners, _balances, _ownedTokens, _ownedTokensIndex,
                           _tokenApprovals, _operatorApprovals,
                           _nextTokenId, _totalMinted >>
           /\ \A u \in TokenIds \ { last'.tokenId } :
                 _fighterAttributes'[u] = _fighterAttributes[u]
           /\ acl \subseteq acl'
           /\ \A g \in acl' \ acl :
                 g[1] \in HandlesOf(_fighterAttributes'[last'.tokenId]) ]_vars

\* A token with an approved address was updated to a triple of new values.
C18_Witness ==
    /\ last.op = "updateAttributes"
    /\ _tokenApprovals[last.tokenId] \in Accounts
    /\ last.points = << 2, 5, 3 >>
    /\ Plaintext(_fighterAttributes[last.tokenId].agility) = 2
    /\ isAllowed(storage, asEuint32(5), _owners[last.tokenId])

\* The step of every successful allowViewer(t, v) is by a caller with
\* standing on the existing token t with v not address(0), adds v to the
\* readers of t's three current handles and changes nothing else.
AllowViewerFrame ==
    [][ (CallStep /\ last'.op = "allowViewer") =>
           /\ _exists(storage, last'.tokenId)
           /\ last'.to # ZERO
           /\ _isApprovedOrOwner(storage, last'.sender, last'.tokenId,
                                 _owners[last'.tokenId])
           /\ acl' = acl \cup { << h, last'.to >> :
                                  h \in CurrentHandles(storage, last'.tokenId) }
           /\ UNCHANGED << _owners, _balances, _ownedTokens, _ownedTokensIndex,
                           _tokenApprovals, _operatorApprovals,
                           _fighterAttributes, _nextTokenId, _totalMinted >>
      ]_vars

\* C19 (as stated)  allowViewer: the frame above, and in every reachable
\* state allowViewer fails with FighterDoesNotExist on an unknown token,
\* with NotAuthorized for a caller without standing on an existing token
\* (whatever the viewer), and with InvalidAddress for a caller with standing
\* and viewer address(0).
C19_AsStated ==
    /\ AllowViewerFrame
    /\ [] ( \A sender \in Accounts, t \in TokenIds, viewer \in Address :
               LET r == allowViewer(storage, sender, t, viewer)
               IN  IF ~_exists(storage, t)
                   THEN r = Revert("FighterDoesNotExist")
                   ELSE IF ~_isApprovedOrOwner(storage, sender, t, _owners[t])
                   THEN r = Revert("NotAuthorized")
                   ELSE IF viewer = ZERO
                   THEN r = Revert("InvalidAddress")
                   ELSE r.ok )

\* C19 (amended)  allowViewer: the frame above, and in every reachable
\* state allowViewer fails with FighterDoesNotExist on an unknown token,
\* with InvalidAddress on an existing token for viewer address(0) (whoever
\* calls), and with NotAuthorized for a caller without standing on an
\* existing token when the viewer is not address(0).
C19_AllowViewer ==
    /\ AllowViewerFrame
    /\ [] ( \A sender \in Accounts, t \in TokenIds, viewer \in Address :
               LET r == allowViewer(storage, sender, t, viewer)
               IN  IF ~_exists(storage, t)
                   THEN r = Revert("FighterDoesNotExist")
                   ELSE IF viewer = ZERO
                   THEN r = Revert("InvalidAddress")
                   ELSE IF ~_isApprovedOrOwner(storage, sender, t, _owners[t])
                   THEN r = Revert("NotAuthorized")
                   ELSE r.ok )

\* The approved address of a token let a third account read its handles.
C19_Witness ==
    /\ last.op = "allowViewer"
    /\ last.sender # _owners[last.tokenId]
    /\ last.to \notin { last.sender, _owners[last.tokenId] }
    /\ \A h \in CurrentHandles(storage, last.tokenId) :
          isAllowed(storage, h, last.to)
    /\ allowViewer(storage, last.to, last.tokenId, last.sender)
          = Revert("NotAuthorized")

\* C20  approve and setApprovalForAll: in every reachable state approve
\* fails with FighterDoesNotExist on an unknown token and with NotAuthorized
\* for a caller that is neither the owner nor an operator of the owner (the
\* approved address included), and otherwise only overwrites the token's
\* approved address; the step of a successful setApprovalForAll(op, b)
\* changes only the entry of op under the caller, after which, when b is
\* false, op is no operator of the caller.
C20_ApprovalsAreMetadata ==
    /\ [] ( \A sender \in Accounts, to \in Address, t \in TokenIds :
               LET r == approve(storage, sender, to, t)
               IN  IF ~_exists(storage, t)
                   THEN r = Revert("FighterDoesNotExist")
                   ELSE IF /\ sender # _owners[t]
                           /\ ~isApprovedForAll(storage, _owners[t], sender)
                   THEN r = Revert("NotAuthorized")
                   ELSE /\ r.ok
                        /\ r.st = [ storage EXCEPT !._tokenApprovals[t] = to ] )
    /\ [][ (CallStep /\ last'.op = "approve") =>
              /\ \/ last'.sender = _owners[last'.tokenId]
                 \/ isApprovedForAll(storage, _owners[last'.tokenId], last'.sender)
              /\ _tokenApprovals' =
                    [ _tokenApprovals EXCEPT ![last'.tokenId] = last'.to ]
              /\ UNCHANGED << _owners, _balances, _ownedTokens,
                              _ownedTokensIndex, _operatorApprovals,
                              _fighterAttributes, _nextTokenId, _totalMinted,
                              acl >> ]_vars
    /\ [][ (CallStep /\ last'.op = "setApprovalForAll") =>
              /\ _operatorApprovals' =
                    [ _operatorApprovals EXCEPT
                        ![last'.sender][last'.to] = last'.approved ]
              /\ UNCHANGED << _owners, _balances, _ownedTokens,
                              _ownedTokensIndex, _tokenApprovals,
                              _fighterAttributes, _nextTokenId, _totalMinted,
                              acl >>
              /\ ~last'.approved =>
                    /\ ~isApprovedForAll(storage', last'.sender, last'.to)
                    /\ \A t \in Existing(storage') :
                          ( /\ _owners'[t] = last'.sender
                            /\ last'.to # last'.sender
                            /\ _tokenApprovals'[t] # last'.to ) =>
                              ~_isApprovedOrOwner(storage', last'.to, t,
                                                  _owners'[t]) ]_vars

\* The owner approved another account for a token; that account cannot
\* approve a third one.
C20_Witness ==
    /\ last.op = "approve"
    /\ last.sender = _owners[last.tokenId]
    /\ last.to \in Accounts \ { last.sender }
    /\ getApproved(storage, last.tokenId).ret = last.to
    /\ approve(storage, last.to, "receiver", last.tokenId)
          = Revert("NotAuthorized")

\* In the step of a transfer of t to another account: after it t has no approved
\* address, the callers with standing on t are the new owner and the new
\* owner's operators, and every updateAttributes, every allowViewer with a
\* viewer in viewers and every transfer to an address in targets by another
\* caller reverts with NotAuthorized.
StandingAfterTransfer(viewers, targets) ==
    (TransferStep /\ last'.from # last'.to) =>
           LET t == last'.tokenId
               B == last'.to
           IN  /\ _owners'[t] = B
               /\ _tokenApprovals'[t] = ZERO
               /\ \A x \in Accounts :
                     _isApprovedOrOwner(storage', x, t, B)
                        <=> (x = B \/ isApprovedForAll(storage', B, x))
               /\ \A x \in Accounts :
                     ~(x = B \/ isApprovedForAll(storage', B, x)) =>
                        /\ \A points \in Distributions :
                              updateAttributes(storage', x, t, points[1],
                                               points[2], points[3])
                                 = Revert("NotAuthorized")
                        /\ \A viewer \in viewers :
                              allowViewer(storage', x, t, viewer)
                                 = Revert("NotAuthorized")
                        /\ \A from \in Address, to \in targets :
                              _transfer(storage', x, from, to, t)
                                 = Revert("NotAuthorized")

\* C21  Delegated standing does not survive a transfer: the statement above
\* for every viewer and every target address.
C21_StandingDoesNotSurvive ==
    [][ StandingAfterTransfer(Address, Address) ]_vars

\* C21, for the viewers and targets that are not address(0).
C21_StandingForNonNull ==
    [][ StandingAfterTransfer(Accounts, Accounts) ]_vars

\* C22  Public queries: in every reachable state, for every token id,
\* ownerOf and getEncryptedAttributes revert with FighterDoesNotExist when
\* the id was never minted (it is 0 or above totalSupply) and otherwise
\* return the stored owner, which is an account, and the three stored
\* handles, none of which is the null handle; they leave the storage as it
\* is.
C22_PublicQueries ==
    \A id \in TokenIds :
        IF 1 <= id /\ id <= totalSupply(storage)
        THEN /\ ownerOf(storage, id) = Ok(storage, _owners[id])
             /\ _owners[id] \in Accounts
             /\ getEncryptedAttributes(storage, id)
                   = Ok(storage, _fighterAttributes[id])
             /\ NullHandle \notin HandlesOf(getEncryptedAttributes(storage, id).ret)
        ELSE /\ ownerOf(storage, id) = Revert("FighterDoesNotExist")
             /\ getEncryptedAttributes(storage, id) = Revert("FighterDoesNotExist")

\* Token 1 was minted, updated and moved to another account; token 2 was
\* not minted: the queries answer for 1 with the new owner and the new
\* handles, and fail for 2.
C22_Witness ==
    /\ nops = 3
    /\ totalSupply(storage) = 1
    /\ last.op \in Transfers
    /\ last.from # last.to
    /\ ownerOf(storage, 1).ret = last.to
    /\ getEncryptedAttributes(storage, 1).ret.strength = asEuint32(5)
    /\ ~ownerOf(storage, 2).ok
    /\ ~getEncryptedAttributes(storage, 2).ok

(* ----------------------- the end-to-end scenario ----------------------- *)

\* A call of the scenario returns: as Finish, the position in the scenario
\* being given by the number of calls made.
ScenarioStep(call, r) ==
    /\ r.ok
    /\ Commit(r.st)
    /\ nops' = nops + 1
    /\ last' = [ call EXCEPT !.ret = r.ret ]
    /\ UNCHANGED callStack
    /\ UNCHANGED clientVars

\* First call: A mints with a triple.
ScenarioMint(A, points) ==
    /\ nops = 0
    /\ ScenarioStep(Call("mintFighter", A, 0, ZERO, ZERO, FALSE, points),
                    mintFighter(storage, A, points[1], points[2], points[3]))

\* Second call: the owner of token 1 updates it.
ScenarioUpdate(points) ==
    /\ nops = 1
    /\ ScenarioStep(Call("updateAttributes", _owners[1], 1, ZERO, ZERO, FALSE,
                         points),
                    updateAttributes(storage, _owners[1], 1,
                                     points[1], points[2], points[3]))

\* Third call: the owner lets another account B read token 1.
ScenarioAllowViewer(B) ==
    /\ nops = 2
    /\ B # _owners[1]
    /\ ScenarioStep(Call("allowViewer", _owners[1], 1, ZERO, B, FALSE, NoPoints),
                    allowViewer(storage, _owners[1], 1, B))

\* Fourth call: the owner transfers token 1 to B with transferFrom.
ScenarioTransferFrom ==
    /\ nops = 3
    /\ callStack = << >>
    /\ ScenarioStep(Call("transferFrom", _owners[1], 1, _owners[1], last.to,
                         FALSE, NoPoints),
                    transferFrom(storage, _owners[1], _owners[1], last.to, 1))

\* Fourth call: the owner transfers token 1 to B with safeTransferFrom; a B
\* with code is then called.
ScenarioSafeTransferFrom ==
    LET call == Call("safeTransferFrom", _owners[1], 1, _owners[1], last.to,
                     FALSE, NoPoints)
        r    == _transfer(storage, _owners[1], _owners[1], last.to, 1)
    IN  /\ nops = 3
        /\ callStack = << >>
        /\ IF last.to \notin Contracts
           THEN ScenarioStep(call, r)
           ELSE /\ r.ok
                /\ Commit(r.st)
                /\ nops' = nops + 1
                /\ callStack' = << [ snapshot |-> storage, call |-> call ] >>
                /\ last' = [ call EXCEPT !.err = "InCallback" ]
        /\ UNCHANGED clientVars

\* B's onERC721Received accepts the token.
ScenarioReceived ==
    /\ nops = 4
    /\ OnERC721Received(TRUE)

ScenarioNext ==
    \/ \E A \in Accounts, points \in Distributions : ScenarioMint(A, points)
    \/ \E points \in Distributions : ScenarioUpdate(points)
    \/ \E B \in Accounts : ScenarioAllowViewer(B)
    \/ ScenarioTransferFrom
    \/ ScenarioSafeTransferFrom
    \/ ScenarioReceived

ScenarioSpec == Init /\ [][ScenarioNext]_vars

\* C23  End-to-end scenario from the initial state: the mint by A returns
\* id 1 and makes A the owner; after A's update getEncryptedAttributes(1)
\* returns the handles of the new triple; after allowViewer(1, B), B is
\* allowed on the current handles; after the transfer from A to B,
\* ownerOf(1) is B, fightersOf(A) is empty, fightersOf(B) is [1] and B is
\* allowed on the current handles, the transfer having added no allowance.
C23_EndToEnd ==
    /\ [] ( nops = 1 =>
               /\ last.ret = 1
               /\ totalSupply(storage) = 1
               /\ ownerOf(storage, 1) = Ok(storage, last.sender) )
    /\ [] ( nops = 2 =>
               /\ last.sender = _owners[1]
               /\ getEncryptedAttributes(storage, 1).ret =
                     [ agility  |-> asEuint32(last.points[1]),
                       strength |-> asEuint32(last.points[2]),
                       stamina  |-> asEuint32(last.points[3]) ] )
    /\ [] ( nops = 3 =>
               /\ last.to # _owners[1]
               /\ \A h \in CurrentHandles(storage, 1) :
                     isAllowed(storage, h, last.to) )
    /\ [] ( nops = 4 =>
               /\ last.from # last.to
               /\ ownerOf(storage, 1) = Ok(storage, last.to)
               /\ fightersOf(storage, last.from) = << >>
               /\ fightersOf(storage, last.to) = << 1 >>
               /\ \A h \in CurrentHandles(storage, 1) :
                     isAllowed(storage, h, last.to) )
    /\ [][ nops = 3 =>
              /\ acl' = acl
              /\ _fighterAttributes' = _fighterAttributes ]_vars

\* alice minted (4, 3, 3), updated to (2, 5, 3), let bob read and
\* transferred token 1 to bob.
C23_Witness ==
    /\ nops = 4
    /\ last.op = "transferFrom"
    /\ last.from = "alice" /\ last.to = "bob"
    /\ isAllowed(storage, asEuint32(4), "alice")
    /\ Plaintext(_fighterAttributes[1].agility) = 2
    /\ Plaintext(_fighterAttributes[1].strength) = 5
    /\ Plaintext(_fighterAttributes[1].stamina) = 3
    /\ _owners[1] = "bob"
    /\ fightersOf(storage, "alice") = << >>
    /\ fightersOf(storage, "bob") = << 1 >>

\* In the step of a mintFighter that returned n to caller c: n did not
\* exist and is now owned by c, n is appended to c's list, c's balance and
\* totalSupply() grow by one, a record of three handles of the submitted
\* values is stored for n and n has no approved address; owner, record and
\* approval of every token that existed, the other owners' lists and
\* balances and the operator approvals are unchanged.
MintEffects ==
    LET n == last'.ret
        c == last'.sender
    IN  /\ ~_exists(storage, n)
        /\ ownerOf(storage', n) = Ok(storage', c)
        /\ fightersOf(storage', c) = Append(fightersOf(storage, c), n)
        /\ _ownedTokensIndex'[n] = Len(fightersOf(storage, c))
        /\ _balances'[c] = _balances[c] + 1
        /\ totalSupply(storage') = totalSupply(storage) + 1
        /\ _fighterAttributes'[n] =
              [ agility  |-> asEuint32(last'.points[1]),
                strength |-> asEuint32(last'.points[2]),
                stamina  |-> asEuint32(last'.points[3]) ]
        /\ _tokenApprovals'[n] = ZERO
        /\ \A t \in Existing(storage) :
              /\ _owners'[t] = _owners[t]
              /\ _fighterAttributes'[t] = _fighterAttributes[t]
              /\ _tokenApprovals'[t] = _tokenApprovals[t]
              /\ _ownedTokensIndex'[t] = _ownedTokensIndex[t]
        /\ \A a \in Address \ { c } :
              /\ fightersOf(storage', a) = fightersOf(storage, a)
              /\ _balances'[a] = _balances[a]
        /\ _operatorApprovals' = _operatorApprovals

\* C24  Effects and frame of mint: the effects above, and the step leaves
\* the readers of every current handle of every token that existed as they
\* were.
C24_MintFrame ==
    [][ (CallStep /\ last'.op = "mintFighter") =>
           /\ MintEffects
           /\ \A t \in Existing(storage) :
                 \A h \in CurrentHandles(storage, t) :
                     Readers(storage', h) = Readers(storage, h) ]_vars

\* C24 without the grant sets: the effects above hold in the step of every
\* mintFighter that returned.
C24_MintEffectsOnly ==
    [][ (CallStep /\ last'.op = "mintFighter") => MintEffects ]_vars

LargePoints == { 2147483647, 2147483637 }

\* C26  Validation error kind and precedence: for every triple over
\* 0..MaxPoint (and with large inputs), _validateDistribution gives
\* AttributeOutOfRange when an input exceeds the total of 10, whatever the
\* sum; AttributeTotalMismatch exactly when all three are at most 10 and
\* the sum is not 10; whenever the range check passes the sum is at most 30;
\* it passes only triples within the policy.  In every reachable state
\* mintFighter and updateAttributes by the owner report that error for the
\* submitted triple.
C26_ValidationPrecedence ==
    /\ nops = 0 =>
          /\ \A a \in WidePoints, b \in WidePoints, c \in WidePoints :
                LET e   == _validateDistribution(a, b, c)
                    big == \/ a > _TOTAL_ATTRIBUTE_POINTS
                           \/ b > _TOTAL_ATTRIBUTE_POINTS
                           \/ c > _TOTAL_ATTRIBUTE_POINTS
                IN  /\ big => e = "AttributeOutOfRange"
                    /\ e = "AttributeTotalMismatch"
                          <=> (~big /\ a + b + c # _TOTAL_ATTRIBUTE_POINTS)
                    /\ e # "AttributeOutOfRange" =>
                          a + b + c <= 3 * _TOTAL_ATTRIBUTE_POINTS
                    /\ e = NoError <=> WithinPolicy(a, b, c)
          /\ \A x \in LargePoints, y \in LargePoints \cup {0, 10, 11} :
                /\ _validateDistribution(x, y, 0) = "AttributeOutOfRange"
                /\ _validateDistribution(0, x, y) = "AttributeOutOfRange"
                /\ _validateDistribution(y, 10, x) = "AttributeOutOfRange"
    /\ \A sender \in Accounts, points \in Distributions :
          LET e == _validateDistribution(points[1], points[2], points[3])
          IN  /\ _nextTokenId <= MaxTokens =>
                    mintFighter(storage, sender,
                                points[1], points[2], points[3]).err = e
              /\ \A t \in Existing(storage) :
                    updateAttributes(storage, _owners[t], t,
                                     points[1], points[2], points[3]).err = e

\* After a mint, a mint of (11, 0, 0), out of range and of wrong total, fails
\* with AttributeOutOfRange and the owner's update to (5, 3, 3) with
\* AttributeTotalMismatch.
C26_Witness ==
    /\ nops = 1
    /\ last.op = "mintFighter"
    /\ mintFighter(storage, "bob", 11, 0, 0) = Revert("AttributeOutOfRange")
    /\ updateAttributes(storage, _owners[1], 1, 5, 3, 3)
          = Revert("AttributeTotalMismatch")
    /\ updateAttributes(storage, _owners[1], 1, 11, 0, 0)
          = Revert("AttributeOutOfRange")

\* C27  Transfer checks its preconditions in the order token exists,
\* owner == from, caller authorized, to != address(0): in every reachable
\* state, for every caller, from, to and token id, _transfer (transferFrom
\* and safeTransferFrom alike) reverts with the error of the first of these
\* that fails, and returns when none does.
C27_TransferCheckOrder ==
    \A sender \in Accounts, from \in Address, to \in Address, t \in TokenIds :
        LET r == _transfer(storage, sender, from, to, t)
        IN  /\ transferFrom(storage, sender, from, to, t) = r
            /\ IF ~_exists(storage, t)
               THEN r = Revert("FighterDoesNotExist")
               ELSE IF _owners[t] # from
               THEN r = Revert("NotAuthorized")
               ELSE IF ~_isApprovedOrOwner(storage, sender, t, _owners[t])
               THEN r = Revert("NotAuthorized")
               ELSE IF to = ZERO
               THEN r = Revert("InvalidAddress")
               ELSE r.ok

\* C27 with to != address(0) checked first, as the modifier of _transfer has
\* it.
C27_TransferChecksToFirst ==
    \A sender \in Accounts, from \in Address, to \in Address, t \in TokenIds :
        LET r == _transfer(storage, sender, from, to, t)
        IN  IF to = ZERO
            THEN r = Revert("InvalidAddress")
            ELSE IF ~_exists(storage, t)
            THEN r = Revert("FighterDoesNotExist")
            ELSE IF _owners[t] # from
            THEN r = Revert("NotAuthorized")
            ELSE IF ~_isApprovedOrOwner(storage, sender, t, _owners[t])
            THEN r = Revert("NotAuthorized")
            ELSE r.ok

\* C28 (as stated)  updateAttributes and allowViewer check existence, then
\* authorization, then their argument: in every reachable state, for every
\* caller, token id, triple and viewer, both revert with FighterDoesNotExist
\* on a token id without owner, else with NotAuthorized for a caller
\* without standing, else with the error of the argument if it has one.
C28_AsStated ==
    \A sender \in Accounts, t \in TokenIds :
        /\ \A points \in Distributions :
              LET r == updateAttributes(storage, sender, t,
                                        points[1], points[2], points[3])
                  e == _validateDistribution(points[1], points[2], points[3])
              IN  IF ~_exists(storage, t)
                  THEN r = Revert("FighterDoesNotExist")
                  ELSE IF ~_isApprovedOrOwner(storage, sender, t, _owners[t])
                  THEN r = Revert("NotAuthorized")
                  ELSE IF e # NoError
                  THEN r = Revert(e)
                  ELSE r.ok
        /\ \A viewer \in Address :
              LET r == allowViewer(storage, sender, t, viewer)
              IN  IF ~_exists(storage, t)
                  THEN r = Revert("FighterDoesNotExist")
                  ELSE IF ~_isApprovedOrOwner(storage, sender, t, _owners[t])
                  THEN r = Revert("NotAuthorized")
                  ELSE IF viewer = ZERO
                  THEN r = Revert("InvalidAddress")
                  ELSE r.ok

\* C28 (amended)  updateAttributes checks existence, then authorization,
\* then the triple; allowViewer checks existence, then the viewer, then
\* authorization: on an existing token a caller without standing gets
\* NotAuthorized from updateAttributes whatever the triple and from
\* allowViewer for every viewer but address(0), for which it gets
\* InvalidAddress; on a token id without owner every caller gets
\* FighterDoesNotExist whatever the arguments.
C28_CheckOrder ==
    \A sender \in Accounts, t \in TokenIds :
        /\ \A points \in Distributions :
              LET r == updateAttributes(storage, sender, t,
                                        points[1], points[2], points[3])
                  e == _validateDistribution(points[1], points[2], points[3])
              IN  IF ~_exists(storage, t)
                  THEN r = Revert("FighterDoesNotExist")
                  ELSE IF ~_isApprovedOrOwner(storage, sender, t, _owners[t])
                  THEN r = Revert("NotAuthorized")
                  ELSE IF e # NoError
                  THEN r = Revert(e)
                  ELSE r.ok
        /\ \A viewer \in Address :
              LET r == allowViewer(storage, sender, t, viewer)
              IN  IF ~_exists(storage, t)
                  THEN r = Revert("FighterDoesNotExist")
                  ELSE IF viewer = ZERO
                  THEN r = Revert("InvalidAddress")
                  ELSE IF ~_isApprovedOrOwner(storage, sender, t, _owners[t])
                  THEN r = Revert("NotAuthorized")
                  ELSE r.ok

\* Token 1 has an owner and an approved address; a third account gets
\* NotAuthorized for an invalid triple and InvalidAddress for the null
\* viewer, and FighterDoesNotExist on token 2.
C28_Witness ==
    /\ _exists(storage, 1) /\ ~_exists(storage, 2)
    /\ _tokenApprovals[1] \in Accounts \ { _owners[1] }
    /\ \E x \in Accounts :
          /\ ~_isApprovedOrOwner(storage, x, 1, _owners[1])
          /\ updateAttributes(storage, x, 1, 11, 0, 0) = Revert("NotAuthorized")
          /\ allowViewer(storage, x, 1, ZERO) = Revert("InvalidAddress")
          /\ allowViewer(storage, x, 1, x) = Revert("NotAuthorized")
          /\ updateAttributes(storage, x, 2, 11, 0, 0)
                = Revert("FighterDoesNotExist")
          /\ allowViewer(storage, x, 2, ZERO) = Revert("FighterDoesNotExist")

\* C29  Self-transfer: the step of a transfer(A, A, t) that returned
\* leaves owners, balances, every owner's list and every stored position,
\* the records, the operator approvals and the counters unchanged; it
\* clears t's approval and allows A on t's current handles, which A already
\* was.
C29_SelfTransfer ==
    [][ (TransferStep /\ last'.from = last'.to) =>
           /\ _isApprovedOrOwner(storage, last'.sender, last'.tokenId,
                                 last'.from)
           /\ _owners[last'.tokenId] = last'.from
           /\ UNCHANGED << _owners, _balances, _ownedTokens, _ownedTokensIndex,
                           _fighterAttributes, _operatorApprovals,
                           _nextTokenId, _totalMinted >>
           /\ _tokenApprovals' =
                 [ _tokenApprovals EXCEPT ![last'.tokenId] = ZERO ]
           /\ acl' = acl \cup { << h, last'.from >> :
                                  h \in CurrentHandles(storage, last'.tokenId) }
           /\ acl' = acl ]_vars

\* The owner of tokens 1 and 2 transferred token 1, the first of its list,
\* to itself.
C29_Witness ==
    /\ last.op \in Transfers
    /\ last.from = last.to
    /\ last.tokenId = 1
    /\ fightersOf(storage, last.from) = << 1, 2 >>
    /\ _ownedTokensIndex[1] = 0 /\ _ownedTokensIndex[2] = 1
    /\ _balances[last.from] = 2

\* C30  Handle freshness: in the step of every mintFighter and
\* updateAttributes that returned, none of the three handles installed is a
\* handle stored for any token before the step, each has only the contract
\* and the token's owner as readers after it, and after an update the
\* token's record has none of its previous handles.
C30_HandleFreshness ==
    [][ (CallStep /\ last'.op \in { "mintFighter", "updateAttributes" }) =>
           LET t   == TokenOf(last')
               new == HandlesOf(_fighterAttributes'[t])
           IN  /\ \A u \in Existing(storage) :
                     new \cap CurrentHandles(storage, u) = {}
               /\ \A h \in new :
                     Readers(storage', h) \subseteq { THIS, _owners'[t] }
               /\ last'.op = "updateAttributes" =>
                     new \cap CurrentHandles(storage, t) = {} ]_vars

\* C31  Internal failures are unreachable: in every reachable state, the
\* token id the next mintFighter takes has no owner and no mintFighter, by
\* any caller with any triple, reverts with TokenAlreadyMinted or
\* InvalidAddress; and for every transfer that passes the checks of
\* _transfer, the sender's list is not empty, the sender's balance is at
\* least 1, the stored position of the token is within the sender's list
\* and holds the token, and the writes of _transfer complete without panic.
C31_InternalFailuresUnreachable ==
    /\ _nextTokenId <= MaxTokens =>
          /\ ~_exists(storage, _nextTokenId)
          /\ \A sender \in Accounts, points \in Distributions :
                mintFighter(storage, sender, points[1], points[2],
                            points[3]).err
                   \notin { "TokenAlreadyMinted", "InvalidAddress", "Panic" }
    /\ \A sender \in Accounts, from \in Accounts, to \in Accounts,
          t \in Existing(storage) :
          ( /\ _owners[t] = from
            /\ _isApprovedOrOwner(storage, sender, t, from) ) =>
              /\ Len(_ownedTokens[from]) >= 1
              /\ _balances[from] >= 1
              /\ _ownedTokensIndex[t] <= Len(_ownedTokens[from]) - 1
              /\ _ownedTokens[from][_ownedTokensIndex[t] + 1] = t
              /\ RemoveFromOwnedTokens(storage, from, t).ok
              /\ TransferEffects(storage, from, to, t).ok
              /\ _transfer(storage, sender, from, to, t).ok

\* An account holds tokens 1 and 2 after a transfer: the transfer of either
\* by its owner passes the checks and completes.
C31_Witness ==
    /\ nops = 3
    /\ last.op \in Transfers
    /\ _owners[1] = last.to /\ _owners[2] = last.to
    /\ Len(_ownedTokens[last.to]) = 2
    /\ _transfer(storage, last.to, last.to, last.from, 1).ok
    /\ _transfer(storage, last.to, last.to, last.from, 2).ok

(* ------------------------- the fighter:mint task ----------------------- *)

\* The variables of the chain.
chainVars == << storageVars, callStack, last, nops >>

\* const [signer] = await ethers.getSigners()
TaskSigner == "alice"

\* The triples the task accepts: three integers of 0..10 that sum to 10.
TaskPoints ==
    { p \in Distributions :
         /\ \A i \in 1..3 : p[i] >= 0 /\ p[i] <= 10
         /\ p[1] + p[2] + p[3] = 10 }

\* The task's mintFighter transaction is mined: the call returns the id of
\* the token it minted.
TaskMintFighter(points) ==
    LET r == mintFighter(storage, TaskSigner, points[1], points[2], points[3])
    IN  /\ task.pc = "start"
        /\ points \in TaskPoints
        /\ CanCall(TaskSigner)
        /\ _nextTokenId <= MaxTokens
        /\ Finish(Call("mintFighter", TaskSigner, 0, ZERO, ZERO, FALSE, points), r)
        /\ task' = [ task EXCEPT !.pc = "mined", !.tokenId = r.ret ]
        /\ UNCHANGED << appVars, cardVars >>

\* const receipt = await tx.wait()
TaskWait ==
    /\ task.pc = "mined"
    /\ task' = [ task EXCEPT !.pc = "receipt" ]
    /\ UNCHANGED << chainVars, appVars, cardVars >>

\* const totalSupply = await instance.totalSupply(), printed as
\* "Minted fighter tokenId".
TaskTotalSupply ==
    /\ task.pc = "receipt"
    /\ task' = [ task EXCEPT !.pc = "done", !.reported = totalSupply(storage) ]
    /\ UNCHANGED << chainVars, appVars, cardVars >>

\* The task, and the mints of the other callers.
TaskNext ==
    \/ \E points \in Distributions : TaskMintFighter(points)
    \/ TaskWait
    \/ TaskTotalSupply
    \/ \E sender \in Accounts \ { TaskSigner }, points \in Distributions :
          MintFighter(sender, points)

TaskSpec == Init /\ [][TaskNext]_vars

C32_OtherTokenReported ==
    /\ task.pc = "done"
    /\ task.tokenId = 1
    /\ task.reported = 2
    /\ _owners[1] = TaskSigner
    /\ _owners[2] # TaskSigner

(* --------------------- FighterApp: the load effect --------------------- *)

\* load() calls started from the initial state.
MaxLoads == 2

\* const MAX_POINTS = 10
MAX_POINTS == 10

\* IS_CONTRACT_CONFIGURED: the deployed address is set.
contractConfigured == TRUE

\* The accounts of the wallet.
WalletAccounts == { "alice", "bob" }

\* The triples the mint form submits: the button is enabled, and handleMint
\* goes on, only when the points sum to MAX_POINTS.
FormPoints ==
    { p \in { <<4, 3, 3>>, <<5, 3, 3>> } : p[1] + p[2] + p[3] = MAX_POINTS }

\* The closure of one run of load(): the address it reads for, the ignore
\* flag its cleanup sets, the await it is at, the ids fightersOf returned,
\* how it ended and the fightersData it built.
NewLoad(address) ==
    [ address |-> address, ignore |-> FALSE, pc |-> "fightersOf",
      tokenIds |-> << >>, outcome |-> "pending", result |-> << >> ]

\* The most recently started load.
LatestLoad == loads[Len(loads)]

\* The cleanup of the previous run of the effect: ignore = true in the
\* closure of the load it started (a run that took the early return has no
\* cleanup, and the load before it is already cancelled).
Cleanup ==
    [ i \in DOMAIN loads |->
        IF i = Len(loads) THEN [ loads[i] EXCEPT !.ignore = TRUE ] ELSE loads[i] ]

\* The load effect runs because address, client or refreshIndex changed:
\* the cleanup of the previous run, then the body up to the first await.
RunEffect(address, client) ==
    IF ~client \/ address = ZERO \/ ~contractConfigured
    THEN /\ fighters' = << >>
         /\ listError' = Null
         /\ loads' = Cleanup
         /\ UNCHANGED isLoadingFighters
    ELSE /\ Len(loads) < MaxLoads
         /\ isLoadingFighters' = TRUE
         /\ listError' = Null
         /\ loads' = Append(Cleanup, NewLoad(address))
         /\ UNCHANGED fighters

\* useAccount() gives another address (undefined on disconnect).
AccountChanged(address) ==
    /\ address # connectedAddress
    /\ connectedAddress' = address
    /\ RunEffect(address, publicClient)
    /\ UNCHANGED << chainVars, task, publicClient, refreshIndex, isMinting,
                    mintError, mintSuccess, cardVars >>

\* usePublicClient() becomes undefined, or defined again.
PublicClientChanged ==
    /\ publicClient' = ~publicClient
    /\ RunEffect(connectedAddress, ~publicClient)
    /\ UNCHANGED << chainVars, task, connectedAddress, refreshIndex, isMinting,
                    mintError, mintSuccess, cardVars >>

\* The fightersOf read of load i returns: a cancelled load stops there.
FightersOfReturns(i) ==
    /\ loads[i].pc = "fightersOf"
    /\ loads' = [ loads EXCEPT ![i] =
                    IF @.ignore
                    THEN [ @ EXCEPT !.pc = "settled", !.outcome = "dropped" ]
                    ELSE [ @ EXCEPT !.pc = "attributes",
                                    !.tokenIds = fightersOf(storage, loads[i].address) ] ]
    /\ UNCHANGED << chainVars, task, connectedAddress, publicClient,
                    refreshIndex, fighters, listError, isLoadingFighters,
                    isMinting, mintError, mintSuccess, cardVars >>

\* fightersData of load i: each id with the handles read for it.
FightersData(i) ==
    [ k \in DOMAIN loads[i].tokenIds |->
        [ tokenId |-> loads[i].tokenIds[k],
          handles |-> getEncryptedAttributes(storage, loads[i].tokenIds[k]).ret ] ]

\* The getEncryptedAttributes reads of load i return, whether or not the
\* load was cancelled meanwhile.
AttributesReturnUnguarded(i) ==
    /\ loads[i].pc = "attributes"
    /\ loads' = [ loads EXCEPT ![i] =
                    [ @ EXCEPT !.pc = "settled", !.outcome = "fulfilled",
                               !.result = FightersData(i) ] ]
    /\ fighters' = FightersData(i)
    /\ isLoadingFighters' = FALSE
    /\ UNCHANGED << chainVars, task, connectedAddress, publicClient,
                    refreshIndex, listError, isMinting, mintError,
                    mintSuccess, cardVars >>

\* The getEncryptedAttributes reads of load i return: unless the load was
\* cancelled, fightersData is shown and the loading flag cleared.
AttributesReturn(i) ==
    /\ loads[i].pc = "attributes"
    /\ loads' = [ loads EXCEPT ![i] =
                    IF @.ignore
                    THEN [ @ EXCEPT !.pc = "settled", !.outcome = "dropped" ]
                    ELSE [ @ EXCEPT !.pc = "settled", !.outcome = "fulfilled",
                                    !.result = FightersData(i) ] ]
    /\ IF loads[i].ignore
       THEN UNCHANGED << fighters, isLoadingFighters >>
       ELSE /\ fighters' = FightersData(i)
            /\ isLoadingFighters' = FALSE
    /\ UNCHANGED << chainVars, task, connectedAddress, publicClient,
                    refreshIndex, listError, isMinting, mintError,
                    mintSuccess, cardVars >>

\* A read of load i throws: unless the load was cancelled, the message is
\* shown and the loading flag cleared.
ReadFails(i) ==
    /\ loads[i].pc \in { "fightersOf", "attributes" }
    /\ loads' = [ loads EXCEPT ![i] =
                    [ @ EXCEPT !.pc = "settled",
                               !.outcome = IF loads[i].ignore THEN "dropped"
                                                       ELSE "rejected" ] ]
    /\ IF loads[i].ignore
       THEN UNCHANGED << listError, isLoadingFighters >>
       ELSE /\ listError' = "Failed to load fighters"
            /\ isLoadingFighters' = FALSE
    /\ UNCHANGED << chainVars, task, connectedAddress, publicClient,
                    refreshIndex, fighters, isMinting, mintError,
                    mintSuccess, cardVars >>

\* handleMint up to the mining of its transaction: the connected account
\* mints the triple of the form.
HandleMint(points) ==
    /\ contractConfigured
    /\ connectedAddress # ZERO
    /\ points \in FormPoints
    /\ ~isMinting
    /\ CanCall(connectedAddress)
    /\ _nextTokenId <= MaxTokens
    /\ Finish(Call("mintFighter", connectedAddress, 0, ZERO, ZERO, FALSE, points),
              mintFighter(storage, connectedAddress,
                          points[1], points[2], points[3]))
    /\ mintError' = Null
    /\ mintSuccess' = Null
    /\ isMinting' = TRUE
    /\ UNCHANGED << task, connectedAddress, publicClient, refreshIndex,
                    fighters, listError, isLoadingFighters, loads, cardVars >>

\* handleMint whose signer or transaction fails: the message is shown.
HandleMintFails ==
    /\ contractConfigured
    /\ connectedAddress # ZERO
    /\ ~isMinting
    /\ mintError' = "Failed to mint fighter"
    /\ mintSuccess' = Null
    /\ isMinting' = FALSE
    /\ UNCHANGED << chainVars, task, connectedAddress, publicClient,
                    refreshIndex, fighters, listError, isLoadingFighters,
                    loads, cardVars >>

\* tx.wait() of handleMint returns: success is shown and triggerRefresh()
\* makes the load effect run again.
MintReceipt ==
    /\ isMinting
    /\ mintSuccess' = "Fighter minted successfully"
    /\ isMinting' = FALSE
    /\ refreshIndex' = refreshIndex + 1
    /\ RunEffect(connectedAddress, publicClient)
    /\ UNCHANGED << chainVars, task, connectedAddress, publicClient,
                    mintError, cardVars >>

LoadNext ==
    \/ \E address \in WalletAccounts \cup { ZERO } : AccountChanged(address)
    \/ PublicClientChanged
    \/ \E points \in Distributions : HandleMint(points)
    \/ HandleMintFails
    \/ MintReceipt
    \/ \E i \in 1 .. MaxLoads : i \in DOMAIN loads /\ FightersOfReturns(i)
    \/ \E i \in 1 .. MaxLoads : i \in DOMAIN loads /\ AttributesReturn(i)
    \/ \E i \in 1 .. MaxLoads : i \in DOMAIN loads /\ ReadFails(i)

LoadSpec == Init /\ [][LoadNext]_vars

\* The last run of the load effect took the load branch.
Connected == connectedAddress # ZERO /\ publicClient /\ contractConfigured

\* Load i is awaiting a response and has not been cancelled.
InFlight(i) == loads[i].pc # "settled" /\ ~loads[i].ignore

\* C33 (as stated)  Stale-load suppression: the list displayed is the result
\* of the most recently started load, or empty when disconnected.
C33_AsStated ==
    /\ ~Connected => fighters = << >>
    /\ (Connected /\ fighters # << >>) =>
          /\ loads # << >>
          /\ LatestLoad.outcome = "fulfilled"
          /\ fighters = LatestLoad.result

\* C33  Stale-load suppression: a load cancelled by the cleanup of the
\* effect writes none of fighters, listError and isLoadingFighters when its
\* responses arrive; in any order of arrival, fighters is written only with
\* the result of the most recently started load, when that load fulfils
\* uncancelled, or with the empty list when the effect runs disconnected.
\* The list is empty while disconnected and is the result of the most
\* recently started load once that load has fulfilled; while that load is
\* in flight, and after it failed, the list is the one shown before.
C33_StaleLoadSuppressed ==
    /\ [] ( /\ ~Connected => fighters = << >>
            /\ ( /\ loads # << >>
                 /\ ~LatestLoad.ignore
                 /\ LatestLoad.outcome = "fulfilled" ) =>
                  fighters = LatestLoad.result )
    /\ [][ /\ \A i \in DOMAIN loads :
                (loads[i].ignore /\ loads'[i] # loads[i]) =>
                    UNCHANGED << fighters, listError, isLoadingFighters >>
           /\ fighters' # fighters =>
                \/ ~Connected' /\ fighters' = << >>
                \/ /\ Len(loads') = Len(loads)
                   /\ InFlight(Len(loads))
                   /\ loads'[Len(loads)].outcome = "fulfilled"
                   /\ fighters' = loads'[Len(loads)].result ]_vars

\* The response of a cancelled load arrived after the load that replaced it
\* had delivered another list, which is still the one shown.
C33_Witness ==
    /\ Len(loads) = 2
    /\ loads[1].pc = "settled" /\ loads[1].outcome = "dropped"
    /\ loads[2].outcome = "fulfilled" /\ ~loads[2].ignore
    /\ fighters = loads[2].result
    /\ Len(fighters) # Len(fightersOf(storage, loads[1].address))

\* C34  Loading flag: isLoadingFighters is true only while a load that was
\* not cancelled is in flight, so that once every started load has settled
\* or been cancelled (a disconnection or the loss of publicClient during a
\* load included) the flag is false and "Fetching fighters..." is not shown.
C34_LoadingOnlyInFlight ==
    isLoadingFighters => \E i \in DOMAIN loads : InFlight(i)

\* The wallet disconnected during a load: every load started has been
\* cancelled or has settled, and the flag is still set.
C34_StuckLoading ==
    /\ isLoadingFighters
    /\ ~Connected
    /\ loads # << >>
    /\ \A i \in DOMAIN loads : loads[i].ignore /\ loads[i].pc = "settled"

(* ------------------------------ FighterCard ---------------------------- *)

\* The token whose card is followed.
CardToken == 1

\* Triples typed into the update panel.
EditPoints == { <<2, 5, 3>>, <<11, 0, 0>> }

\* fighters holds an entry for the token: its card is rendered.
CardMounted == \E k \in DOMAIN fighters : fighters[k].tokenId = CardToken

\* The handles prop of the card.
CardHandles ==
    fighters[CHOOSE k \in DOMAIN fighters : fighters[k].tokenId = CardToken].handles

\* resolvedValues of handleDecrypt: the plaintext of each handle.
ResolvedValues(handles) ==
    << Plaintext(handles.agility), Plaintext(handles.strength),
       Plaintext(handles.stamina) >>

\* const editTotal = agility + strength + stamina of updateValues
editTotal == updateValues[1] + updateValues[2] + updateValues[3]

\* Math.min(Math.max(value, 0), MAX_POINTS)
safeValue(value) ==
    IF value < 0 THEN 0 ELSE IF value > MAX_POINTS THEN MAX_POINTS ELSE value

\* The "Reassign attributes" / "Cancel update" button.
ToggleEditing ==
    /\ CardMounted
    /\ isEditing' = ~isEditing
    /\ UNCHANGED << chainVars, task, appVars, decrypted, isDecrypting,
                    decryptError, updateValues, updateError, isUpdating,
                    decrypts >>

\* handleUpdateChange on the three inputs of the update panel.
HandleUpdateChange(points) ==
    /\ CardMounted
    /\ isEditing
    /\ updateValues' = << safeValue(points[1]), safeValue(points[2]),
                          safeValue(points[3]) >>
    /\ UNCHANGED << chainVars, task, appVars, decrypted, isDecrypting,
                    decryptError, isEditing, updateError, isUpdating,
                    decrypts >>

\* handleDecrypt up to its awaits: the closure holds the handles and the
\* owner address the card had when the button was pressed.
HandleDecrypt ==
    /\ CardMounted
    /\ contractConfigured
    /\ connectedAddress # ZERO
    /\ ~isDecrypting
    /\ decryptError' = Null
    /\ isDecrypting' = TRUE
    /\ decrypts' = Append(decrypts, [ handles |-> CardHandles,
                                      ownerAddress |-> connectedAddress ])
    /\ UNCHANGED << chainVars, task, appVars, decrypted, isEditing,
                    updateValues, updateError, isUpdating >>

\* userDecrypt returns the plaintexts of the handles of the closure, which
\* its owner address is allowed to read: they are shown and copied to the
\* update panel.
DecryptResolves ==
    /\ decrypts # << >>
    /\ \A h \in HandlesOf(Head(decrypts).handles) :
          /\ isAllowed(storage, h, Head(decrypts).ownerAddress)
          /\ isAllowed(storage, h, THIS)
    /\ decrypted' = ResolvedValues(Head(decrypts).handles)
    /\ updateValues' = ResolvedValues(Head(decrypts).handles)
    /\ isDecrypting' = FALSE
    /\ decrypts' = Tail(decrypts)
    /\ UNCHANGED << chainVars, task, appVars, decryptError, isEditing,
                    updateError, isUpdating >>

\* The signature or userDecrypt throws: the message is shown.
DecryptFails ==
    /\ decrypts # << >>
    /\ decryptError' = "Failed to decrypt attributes"
    /\ isDecrypting' = FALSE
    /\ decrypts' = Tail(decrypts)
    /\ UNCHANGED << chainVars, task, appVars, decrypted, isEditing,
                    updateValues, updateError, isUpdating >>

\* handleUpdate up to the mining of its transaction: the connected account
\* updates the token with the values of the panel.
HandleUpdate ==
    /\ CardMounted
    /\ isEditing
    /\ contractConfigured
    /\ connectedAddress # ZERO
    /\ editTotal = MAX_POINTS
    /\ ~isUpdating
    /\ CanCall(connectedAddress)
    /\ Finish(Call("updateAttributes", connectedAddress, CardToken, ZERO, ZERO,
                   FALSE, updateValues),
              updateAttributes(storage, connectedAddress, CardToken,
                               updateValues[1], updateValues[2], updateValues[3]))
    /\ updateError' = Null
    /\ isUpdating' = TRUE
    /\ UNCHANGED << task, appVars, decrypted, isDecrypting, decryptError,
                    isEditing, updateValues, decrypts >>

\* handleUpdate whose signer or transaction fails: the message is shown.
HandleUpdateFails ==
    /\ CardMounted
    /\ isEditing
    /\ contractConfigured
    /\ connectedAddress # ZERO
    /\ editTotal = MAX_POINTS
    /\ ~isUpdating
    /\ updateError' = "Failed to update attributes"
    /\ isUpdating' = FALSE
    /\ UNCHANGED << chainVars, task, appVars, decrypted, isDecrypting,
                    decryptError, isEditing, updateValues, decrypts >>

\* tx.wait() of handleUpdate returns: the panel closes, the plaintext is
\* cleared and onUpdated() makes the load effect run again.
UpdateReceipt ==
    /\ isUpdating
    /\ isEditing' = FALSE
    /\ decrypted' = NoAttributes
    /\ isUpdating' = FALSE
    /\ refreshIndex' = refreshIndex + 1
    /\ RunEffect(connectedAddress, publicClient)
    /\ UNCHANGED << chainVars, task, connectedAddress, publicClient,
                    isMinting, mintError, mintSuccess, isDecrypting,
                    decryptError, updateValues, updateError, decrypts >>

\* The card of a token the connected account minted: the wallet connects
\* once, and the application and the card run.
CardNext ==
    \/ \E address \in WalletAccounts :
          connectedAddress = ZERO /\ AccountChanged(address)
    \/ \E points \in FormPoints : HandleMint(points)
    \/ MintReceipt
    \/ \E i \in 1 .. MaxLoads : i \in DOMAIN loads /\ FightersOfReturns(i)
    \/ \E i \in 1 .. MaxLoads : i \in DOMAIN loads /\ AttributesReturn(i)
    \/ ToggleEditing
    \/ \E points \in EditPoints : HandleUpdateChange(points)
    \/ HandleUpdate
    \/ HandleUpdateFails
    \/ UpdateReceipt
    \/ HandleDecrypt
    \/ DecryptResolves
    \/ DecryptFails

CardSpec == Init /\ [][CardNext]_vars

\* C35  Decrypted display consistency: whenever the card shows decrypted
\* values they are the plaintexts of the handles currently passed to it,
\* whatever the interleaving of an in-flight handleDecrypt with handleUpdate
\* and the list refresh that follows; and the receipt of an update made from
\* the card clears the plaintext shown.
C35_DecryptedMatchesHandles ==
    (CardMounted /\ decrypted # NoAttributes) =>
        decrypted = ResolvedValues(CardHandles)

\* The card shows the plaintext of replaced handles against the handles the
\* refresh that followed the update delivered, after the update's receipt
\* had cleared it.
C35_StalePlaintextShown ==
    /\ CardMounted
    /\ decrypted # NoAttributes
    /\ decrypted # ResolvedValues(CardHandles)
    /\ CardHandles = _fighterAttributes[CardToken]
    /\ ~isUpdating
    /\ decrypts = << >>
    /\ refreshIndex >= 1

=============================================================================
